---- MODULE Spec2Model ----
(***************************************************************************)
(* Verification model of the diamond-types causal graph (time DAG), its    *)
(* queries (src/causalgraph/graph/tools.rs) and the op-log built on it.    *)
(* Local versions (LVs) are 0-based naturals, as in the source.            *)
(***************************************************************************)
EXTENDS Integers, Sequences, FiniteSets, TLC

VARIABLES graph, query, oplog, other, tree, cursor, iter

vars == <<graph, query, oplog, other, tree, cursor, iter>>

---------------------------------------------------------------------------
(* Bounds of the model *)

\* Number of LVs a causal graph built entry by entry may hold.
MaxGraphLV == 4
\* Number of LVs an op-log may hold.
MaxLV == 4
\* Longest run of LVs one push may allocate.
MaxOpLen == 2
\* Longest version list handed to a two-list query.
MaxVersions == 2
\* Longest frontier handed to frontier_contains_version.
MaxFrontier == 3
\* Number of LVs each of the two op-logs compared by eq may hold.
MaxEqLV == 3

---------------------------------------------------------------------------
(* Sequence helpers *)

Range(s) == {s[i] : i \in 1..Len(s)}

Max(S) == CHOOSE x \in S : \A y \in S : y <= x

Min(S) == CHOOSE x \in S : \A y \in S : x <= y

RECURSIVE SortedSeq(_)
\* The ascending sequence of the elements of a finite set of numbers.
SortedSeq(S) == IF S = {} THEN <<>> ELSE SortedSeq(S \ {Max(S)}) \o <<Max(S)>>

Reverse(s) == [i \in 1..Len(s) |-> s[Len(s) + 1 - i]]

IsSorted(s) == \A i \in 1..(Len(s) - 1) : s[i] < s[i + 1]

\* std BinaryHeap<T> over a totally ordered T: kept as a descending sequence,
\* so that pop() and peek() read the head.
RECURSIVE HeapPush(_, _)
HeapPush(q, x) ==
    IF q = <<>> THEN <<x>>
    ELSE IF x >= Head(q) THEN <<x>> \o q
    ELSE <<Head(q)>> \o HeapPush(Tail(q), x)

RECURSIVE HeapPushAll(_, _)
HeapPushAll(q, s) ==
    IF s = <<>> THEN q ELSE HeapPushAll(HeapPush(q, Head(s)), Tail(s))

---------------------------------------------------------------------------
(* The graph: entries [start, end) with parents and shadow *)

\* RleVec::find_packed: the entry whose span contains v.
find_packed(entries, v) ==
    entries[CHOOSE i \in 1..Len(entries) :
                entries[i].start <= v /\ v < entries[i].end]

shadow_of(entries, time) == find_packed(entries, time).shadow

\* GraphEntryInternal::shadow_contains
shadow_contains(entry, time) == entry.shadow <= time /\ time < entry.end

\* GraphEntryInternal::contains
entry_contains(entry, time) == entry.start <= time /\ time < entry.end

\* Mutant: the shadow test without the a > b guard.
txn_shadow_contains_unordered(entries, a, b) ==
    a = b \/ shadow_of(entries, a) <= b

txn_shadow_contains(entries, a, b) ==
    a = b \/ (a > b /\ shadow_of(entries, a) <= b)

\* The coarse test widened to the whole shadow of a's entry.
is_direct_descendant_by_shadow(entries, a, b) ==
    a = b \/ (a > b /\ shadow_of(entries, a) <= b)

is_direct_descendant_coarse(entries, a, b) ==
    a = b \/ (a > b /\ entry_contains(find_packed(entries, a), b))

next_lv(entries) == IF entries = <<>> THEN 0 ELSE entries[Len(entries)].end

(* Ground truth, read off the DAG alone: the parents of one LV and the      *)
(* transitive history (inclusive) of a set of LVs.                          *)
ParentsOfLV(entries, v) ==
    LET e == find_packed(entries, v)
    IN  IF v > e.start THEN {v - 1} ELSE Range(e.parents)

RECURSIVE HistoryFrom(_, _, _)
HistoryFrom(entries, todo, acc) ==
    IF todo = {} THEN acc
    ELSE LET v == Max(todo)
         IN  HistoryFrom(entries,
                         (todo \ {v}) \cup (ParentsOfLV(entries, v) \ acc),
                         acc \cup {v})

History(entries, F) == HistoryFrom(entries, F, {})

IsAncestor(entries, a, b) == a /= b /\ a \in History(entries, {b})

\* A frontier: sorted, duplicate free, no element an ancestor of another.
IsFrontier(entries, f) ==
    /\ IsSorted(f)
    /\ \A i, j \in 1..Len(f) : i /= j => ~IsAncestor(entries, f[i], f[j])

---------------------------------------------------------------------------
(* frontier_contains_version *)

\* Mutant: the de-duplication drops the whole queue, not only the entries
\* inside the current CG entry.
fcv_drain_all(queue, start) == <<>>

RECURSIVE fcv_drain(_, _)
\* while let Some(&next_time) = queue.peek() { if next_time >= start { pop } }
fcv_drain(queue, start) ==
    IF queue /= <<>> /\ Head(queue) >= start THEN fcv_drain(Tail(queue), start)
    ELSE queue

\* Mutant: only the first parent is followed.
fcv_push_first_parent(queue, parents, target) ==
    HeapPushAll(queue, SelectSeq(parents,
                                 LAMBDA p : p = parents[1] /\ p > target))

fcv_push_parents(queue, parents, target) ==
    HeapPushAll(queue, SelectSeq(parents, LAMBDA p : p > target))

RECURSIVE fcv_loop(_, _, _)
fcv_loop(entries, queue, target) ==
    IF queue = <<>> THEN FALSE
    ELSE LET order == Head(queue)
             entry == find_packed(entries, order)
         IN  IF shadow_contains(entry, target) THEN TRUE
             ELSE IF target \in Range(entry.parents) THEN TRUE
             ELSE fcv_loop(entries,
                           fcv_push_parents(fcv_drain(Tail(queue), entry.start),
                                            entry.parents, target),
                           target)

\* Mutant: the shadow fast path alone, without the heap walk.
frontier_contains_version_fast_only(entries, frontier, target) ==
    IF target \in Range(frontier) THEN TRUE
    ELSE IF frontier = <<>> THEN FALSE
    ELSE \E i \in 1..Len(frontier) :
            /\ frontier[i] > target
            /\ shadow_contains(find_packed(entries, frontier[i]), target)

frontier_contains_version(entries, frontier, target) ==
    IF target \in Range(frontier) THEN TRUE
    ELSE IF frontier = <<>> THEN FALSE
    ELSE IF \E i \in 1..Len(frontier) :
               /\ frontier[i] > target
               /\ shadow_contains(find_packed(entries, frontier[i]), target)
         THEN TRUE
    ELSE fcv_loop(entries,
                  HeapPushAll(<<>>, SelectSeq(frontier, LAMBDA o : o > target)),
                  target)

\* Mutant: the containment test is asked the wrong way round.
version_cmp_swapped(entries, v1, v2) ==
    IF v1 = v2 THEN "Equal"
    ELSE IF v1 < v2
         THEN (IF frontier_contains_version(entries, <<v1>>, v2)
               THEN "Less" ELSE "None")
         ELSE (IF frontier_contains_version(entries, <<v2>>, v1)
               THEN "Greater" ELSE "None")

version_cmp(entries, v1, v2) ==
    IF v1 = v2 THEN "Equal"
    ELSE IF v1 < v2
         THEN (IF frontier_contains_version(entries, <<v2>>, v1)
               THEN "Less" ELSE "None")
         ELSE (IF frontier_contains_version(entries, <<v1>>, v2)
               THEN "Greater" ELSE "None")

---------------------------------------------------------------------------
(* diff *)

\* enum DiffFlag { OnlyA, OnlyB, Shared }, in its derived order.
OnlyA == 0
OnlyB == 1
Shared == 2

\* A heap element (LV, DiffFlag), encoded so that the tuple order of the
\* source (LV first, then flag) is the numeric order.
diff_enc(ord, flag) == ord * 3 + flag
diff_ord(e) == e \div 3
diff_flag(e) == e % 3

\* push_reversed_rle without the merge of a span that ends where the last
\* one starts.
push_reversed_rle_no_merge(list, span) == Append(list, span)

\* AppendRle::push_reversed_rle on a list of DTRange [start, end).
push_reversed_rle(list, span) ==
    LET n == Len(list)
    IN  IF n > 0 /\ span.end = list[n].start
        THEN [list EXCEPT ![n].start = span.start]
        ELSE Append(list, span)

\* The mark_run closure of diff_slow: marks [ord_start, ord_end] inclusive.
mark_run(out, ord_start, ord_end, flag) ==
    IF flag = OnlyA
    THEN [out EXCEPT !.a = push_reversed_rle(@, [start |-> ord_start, end |-> ord_end + 1])]
    ELSE IF flag = OnlyB
    THEN [out EXCEPT !.b = push_reversed_rle(@, [start |-> ord_start, end |-> ord_end + 1])]
    ELSE out

RECURSIVE diff_collapse_keep_flag(_)
\* Mutant: entries at the same LV are popped without promoting the flag.
diff_collapse_keep_flag(st) ==
    IF st.queue /= <<>> /\ diff_ord(Head(st.queue)) = st.ord
    THEN LET peek_flag == diff_flag(Head(st.queue))
         IN  diff_collapse_keep_flag([st EXCEPT
                 !.queue = Tail(@),
                 !.num_shared = IF peek_flag = Shared THEN @ - 1 ELSE @])
    ELSE st

RECURSIVE diff_collapse(_)
\* Pop every other queue entry at the same LV, promoting the flag to Shared.
diff_collapse(st) ==
    IF st.queue /= <<>> /\ diff_ord(Head(st.queue)) = st.ord
    THEN LET peek_flag == diff_flag(Head(st.queue))
         IN  diff_collapse([st EXCEPT
                 !.queue = Tail(@),
                 !.flag = IF peek_flag /= st.flag THEN Shared ELSE @,
                 !.num_shared = IF peek_flag = Shared THEN @ - 1 ELSE @])
    ELSE st

RECURSIVE diff_consume(_, _)
\* Case 1: consume the queue heads that fall inside the containing txn.
diff_consume(st, txn_start) ==
    IF st.queue /= <<>> /\ diff_ord(Head(st.queue)) >= txn_start
    THEN LET peek_ord == diff_ord(Head(st.queue))
             peek_flag == diff_flag(Head(st.queue))
             differs == peek_flag /= st.flag
         IN  diff_consume(
                 [ queue |-> Tail(st.queue),
                   ord |-> IF differs THEN peek_ord ELSE st.ord,
                   flag |-> IF differs THEN Shared ELSE st.flag,
                   num_shared |-> IF peek_flag = Shared
                                  THEN st.num_shared - 1 ELSE st.num_shared,
                   out |-> IF differs
                           THEN mark_run(st.out, peek_ord + 1, st.ord, st.flag)
                           ELSE st.out ],
                 txn_start)
    ELSE st

diff_push_parents(queue, parents, flag) ==
    HeapPushAll(queue, [i \in 1..Len(parents) |-> diff_enc(parents[i], flag)])

RECURSIVE diff_slow_internal(_, _, _, _)
diff_slow_internal(entries, queue, num_shared, out) ==
    IF queue = <<>> THEN out
    ELSE
    LET flag0 == diff_flag(Head(queue))
        st1 == diff_collapse(
                   [ queue |-> Tail(queue), ord |-> diff_ord(Head(queue)),
                     flag |-> flag0,
                     num_shared |-> IF flag0 = Shared THEN num_shared - 1
                                    ELSE num_shared,
                     out |-> out ])
        containing_txn == find_packed(entries, st1.ord)
        st2 == diff_consume(st1, containing_txn.start)
        out3 == mark_run(st2.out, containing_txn.start, st2.ord, st2.flag)
        queue3 == diff_push_parents(st2.queue, containing_txn.parents, st2.flag)
        num3 == IF st2.flag = Shared
                THEN st2.num_shared + Len(containing_txn.parents)
                ELSE st2.num_shared
    IN  IF Len(queue3) = num3 THEN out3
        ELSE diff_slow_internal(entries, queue3, num3, out3)

diff_slow(entries, a, b) ==
    diff_slow_internal(
        entries,
        HeapPushAll(HeapPushAll(<<>>, [i \in 1..Len(a) |-> diff_enc(a[i], OnlyA)]),
                    [i \in 1..Len(b) |-> diff_enc(b[i], OnlyB)]),
        0,
        [a |-> <<>>, b |-> <<>>])

diff_rev(entries, a, b) ==
    IF a = b THEN [a |-> <<>>, b |-> <<>>]
    ELSE IF Len(a) = 1 /\ Len(b) = 1 /\ a[1] = b[1]
    THEN [a |-> <<>>, b |-> <<>>]
    ELSE IF Len(a) = 1 /\ Len(b) = 1
            /\ is_direct_descendant_coarse(entries, a[1], b[1])
    THEN [a |-> <<[start |-> b[1] + 1, end |-> a[1] + 1]>>, b |-> <<>>]
    ELSE IF Len(a) = 1 /\ Len(b) = 1
            /\ is_direct_descendant_coarse(entries, b[1], a[1])
    THEN [a |-> <<>>, b |-> <<[start |-> a[1] + 1, end |-> b[1] + 1]>>]
    ELSE diff_slow(entries, a, b)

diff(entries, a, b) ==
    LET result == diff_rev(entries, a, b)
    IN  [a |-> Reverse(result.a), b |-> Reverse(result.b)]

\* The LVs covered by a list of DTRange.
Covered(list) ==
    UNION { list[i].start .. (list[i].end - 1) : i \in 1..Len(list) }

---------------------------------------------------------------------------
(* find_conflicting *)

\* usize::MAX, which no LV of a bounded graph reaches.
USIZE_MAX == -1

ROOT_FRONTIER == <<>>

\* impl From<&[LV]> for TimePoint
TimePoint(version) ==
    [ last |-> IF version = <<>> THEN USIZE_MAX ELSE version[Len(version)],
      merged_with |-> IF Len(version) > 1
                      THEN SubSeq(version, 1, Len(version) - 1) ELSE <<>> ]

\* impl Ord for TimePoint, then the flag, as the tuple (TimePoint, DiffFlag)
\* compares: -1, 0 or 1. last.wrapping_add(1) sorts ROOT lowest.
tp_cmp(x, y) ==
    IF x.time.last + 1 /= y.time.last + 1
    THEN (IF x.time.last + 1 < y.time.last + 1 THEN -1 ELSE 1)
    ELSE IF Len(x.time.merged_with) /= Len(y.time.merged_with)
    THEN (IF Len(y.time.merged_with) < Len(x.time.merged_with) THEN -1 ELSE 1)
    ELSE IF x.flag /= y.flag
    THEN (IF x.flag < y.flag THEN -1 ELSE 1)
    ELSE 0

\* BinaryHeap<(TimePoint, DiffFlag)> as a descending sequence. Elements that
\* compare equal without being equal pop in an order the heap does not
\* promise: `tie` puts a new element before or after its equals.
RECURSIVE tp_push(_, _, _)
tp_push(q, x, tie) ==
    IF q = <<>> THEN <<x>>
    ELSE IF tp_cmp(x, Head(q)) > 0 \/ (tie /\ tp_cmp(x, Head(q)) = 0)
    THEN <<x>> \o q
    ELSE <<Head(q)>> \o tp_push(Tail(q), x, tie)

RECURSIVE tp_push_all(_, _, _, _)
\* for t in merged_with { queue.push((t.into(), flag)) }
tp_push_all(q, versions, flag, tie) ==
    IF versions = <<>> THEN q
    ELSE tp_push_all(tp_push(q, [time |-> TimePoint(<<Head(versions)>>),
                                 flag |-> flag], tie),
                     Tail(versions), flag, tie)

RECURSIVE fc_discard_keep_flag(_, _, _)
\* Mutant: duplicates are popped without merging their flags.
fc_discard_keep_flag(queue, time, flag) ==
    IF queue /= <<>> /\ Head(queue).time = time
    THEN fc_discard_keep_flag(Tail(queue), time, flag)
    ELSE [queue |-> queue, flag |-> flag]

RECURSIVE fc_discard_duplicates(_, _, _)
\* Pop the entries equal to `time` (the whole frontier), merging their flags.
fc_discard_duplicates(queue, time, flag) ==
    IF queue /= <<>> /\ Head(queue).time = time
    THEN fc_discard_duplicates(Tail(queue), time,
                               IF Head(queue).flag /= flag THEN Shared ELSE flag)
    ELSE [queue |-> queue, flag |-> flag]

RECURSIVE fc_consume(_, _, _)
\* The inner loop over one containing txn. st: queue, range, flag, visited, ok.
\* Returns st with `done` set when the walk ended here, and else with the
\* txn's parents pushed.
fc_consume(st, containing_txn, tie) ==
    IF st.queue = <<>>
    THEN [st EXCEPT !.done = TRUE, !.frontier = <<st.range.end - 1>>]
    ELSE LET peek_time == Head(st.queue).time
         IN  IF peek_time.last /= USIZE_MAX /\ peek_time.last >= containing_txn.start
             THEN LET next_flag == Head(st.queue).flag
                      emit == peek_time.last + 1 < st.range.end
                      offset == peek_time.last + 1 - containing_txn.start
                  IN  fc_consume(
                          [st EXCEPT
                              !.queue = tp_push_all(Tail(st.queue),
                                                    peek_time.merged_with,
                                                    next_flag, tie),
                              !.range = IF emit
                                        THEN [start |-> st.range.start,
                                              end |-> st.range.start + offset]
                                        ELSE @,
                              !.visited = IF emit
                                          THEN Append(@,
                                                 [start |-> st.range.start + offset,
                                                  end |-> st.range.end,
                                                  flag |-> st.flag])
                                          ELSE @,
                              !.ok = @ /\ (emit => offset > 0),
                              !.flag = IF next_flag /= st.flag THEN Shared ELSE @],
                          containing_txn, tie)
             ELSE [st EXCEPT
                      !.visited = Append(@, [start |-> st.range.start,
                                             end |-> st.range.end,
                                             flag |-> st.flag]),
                      !.queue = tp_push(@, [time |-> TimePoint(containing_txn.parents),
                                            flag |-> st.flag], tie)]

RECURSIVE fc_loop(_, _, _, _, _)
fc_loop(entries, queue, visited, ok, tie) ==
    LET time == Head(queue).time
        t == time.last
    IN  IF t = USIZE_MAX
        THEN [frontier |-> ROOT_FRONTIER, visited |-> visited, ok |-> ok]
        ELSE
        LET d == fc_discard_duplicates(Tail(queue), time, Head(queue).flag)
        IN  IF d.queue = <<>>
            THEN [ frontier |-> Append(time.merged_with, t), visited |-> visited,
                   ok |-> ok /\ d.flag = Shared ]
            ELSE
            LET queue2 == tp_push_all(d.queue, time.merged_with, d.flag, tie)
                containing_txn == find_packed(entries, t)
                st == fc_consume(
                          [ queue |-> queue2,
                            range |-> [start |-> containing_txn.start, end |-> t + 1],
                            flag |-> d.flag, visited |-> visited, ok |-> ok,
                            done |-> FALSE, frontier |-> <<>> ],
                          containing_txn, tie)
            IN  IF st.done
                THEN [frontier |-> st.frontier, visited |-> st.visited, ok |-> st.ok]
                ELSE fc_loop(entries, st.queue, st.visited, st.ok, tie)

\* Returns the common frontier, the visit(range, flag) calls in call order, and
\* whether every debug assertion on the way held.
find_conflicting_slow(entries, a, b, tie) ==
    fc_loop(entries,
            tp_push(tp_push(<<>>, [time |-> TimePoint(a), flag |-> OnlyA], tie),
                    [time |-> TimePoint(b), flag |-> OnlyB], tie),
            <<>>, TRUE, tie)

\* find_conflicting whose shortcut for a above b returns a, not b, as the
\* common ancestor.
find_conflicting_returns_a(entries, a, b, tie) ==
    IF a = b THEN [frontier |-> a, visited |-> <<>>, ok |-> TRUE]
    ELSE IF Len(a) = 1 /\ Len(b) = 1
            /\ is_direct_descendant_coarse(entries, a[1], b[1])
    THEN [ frontier |-> <<a[1]>>,
           visited |-> <<[start |-> b[1] + 1, end |-> a[1] + 1, flag |-> OnlyA]>>,
           ok |-> TRUE ]
    ELSE IF Len(a) = 1 /\ Len(b) = 1
            /\ is_direct_descendant_coarse(entries, b[1], a[1])
    THEN [ frontier |-> <<a[1]>>,
           visited |-> <<[start |-> a[1] + 1, end |-> b[1] + 1, flag |-> OnlyB]>>,
           ok |-> TRUE ]
    ELSE find_conflicting_slow(entries, a, b, tie)

find_conflicting(entries, a, b, tie) ==
    IF a = b THEN [frontier |-> a, visited |-> <<>>, ok |-> TRUE]
    ELSE IF Len(a) = 1 /\ Len(b) = 1
            /\ is_direct_descendant_coarse(entries, a[1], b[1])
    THEN [ frontier |-> <<b[1]>>,
           visited |-> <<[start |-> b[1] + 1, end |-> a[1] + 1, flag |-> OnlyA]>>,
           ok |-> TRUE ]
    ELSE IF Len(a) = 1 /\ Len(b) = 1
            /\ is_direct_descendant_coarse(entries, b[1], a[1])
    THEN [ frontier |-> <<a[1]>>,
           visited |-> <<[start |-> a[1] + 1, end |-> b[1] + 1, flag |-> OnlyB]>>,
           ok |-> TRUE ]
    ELSE find_conflicting_slow(entries, a, b, tie)

---------------------------------------------------------------------------
(* find_dominators, version_union *)

\* The LSB of a heap element tells whether the version was an input.
enc_input(v) == v * 2
enc_normal(v) == v * 2 + 1
dec_is_input(v_enc) == v_enc % 2 = 0
dec_v(v_enc) == v_enc \div 2

RECURSIVE dom_consume_exclusive(_, _)
\* Mutant: the first LV of the entry is left in the queue (v2 <= start breaks).
dom_consume_exclusive(st, start) ==
    IF st.queue /= <<>> /\ dec_v(Head(st.queue)) > start
    THEN LET v2 == dec_v(Head(st.queue))
             is_input2 == dec_is_input(Head(st.queue))
             emit == is_input2 /\ st.last_emitted /= v2
         IN  dom_consume_exclusive(
                 [ queue |-> Tail(st.queue),
                   inputs_remaining |-> IF is_input2 THEN st.inputs_remaining - 1
                                        ELSE st.inputs_remaining,
                   last_emitted |-> IF emit THEN v2 ELSE st.last_emitted,
                   visited |-> IF emit THEN Append(st.visited, <<v2, FALSE>>)
                               ELSE st.visited ],
                 start)
    ELSE st

RECURSIVE dom_consume(_, _)
\* Pop the queue heads inside the entry starting at `start`; an input among
\* them is visited as a non-dominator, once.
dom_consume(st, start) ==
    IF st.queue /= <<>> /\ dec_v(Head(st.queue)) >= start
    THEN LET v2 == dec_v(Head(st.queue))
             is_input2 == dec_is_input(Head(st.queue))
             emit == is_input2 /\ st.last_emitted /= v2
         IN  dom_consume(
                 [ queue |-> Tail(st.queue),
                   inputs_remaining |-> IF is_input2 THEN st.inputs_remaining - 1
                                        ELSE st.inputs_remaining,
                   last_emitted |-> IF emit THEN v2 ELSE st.last_emitted,
                   visited |-> IF emit THEN Append(st.visited, <<v2, FALSE>>)
                               ELSE st.visited ],
                 start)
    ELSE st

dom_push_parents(queue, parents) ==
    HeapPushAll(queue, [i \in 1..Len(parents) |-> enc_normal(parents[i])])

RECURSIVE dom_loop(_, _, _)
dom_loop(entries, st, stop_at_shadow) ==
    IF st.queue = <<>> THEN st.visited
    ELSE
    LET is_input == dec_is_input(Head(st.queue))
        v == dec_v(Head(st.queue))
        st1 == [ queue |-> Tail(st.queue),
                 inputs_remaining |-> IF is_input THEN st.inputs_remaining - 1
                                      ELSE st.inputs_remaining,
                 last_emitted |-> IF is_input THEN v ELSE st.last_emitted,
                 visited |-> IF is_input THEN Append(st.visited, <<v, TRUE>>)
                             ELSE st.visited ]
        e == find_packed(entries, v)
    IN  IF stop_at_shadow /= USIZE_MAX /\ e.shadow <= stop_at_shadow
        THEN st1.visited
        ELSE LET st2 == dom_consume(st1, e.start)
             IN  IF st2.inputs_remaining = 0 THEN st2.visited
                 ELSE dom_loop(entries,
                               [st2 EXCEPT !.queue = dom_push_parents(@, e.parents)],
                               stop_at_shadow)

\* The sequence of visit(v, dom) calls, in call order.
find_dominators_full_internal(entries, versions, stop_at_shadow) ==
    IF Len(versions) <= 1
    THEN [i \in 1..Len(versions) |-> <<versions[i], TRUE>>]
    ELSE dom_loop(entries,
                  [ queue |-> HeapPushAll(<<>>,
                        [i \in 1..Len(versions) |-> enc_input(versions[i])]),
                    inputs_remaining |-> Len(versions),
                    last_emitted |-> USIZE_MAX,
                    visited |-> <<>> ],
                  stop_at_shadow)

\* The versions visited with dom = true, in visit order.
dom_only(visited) ==
    LET doms == SelectSeq(visited, LAMBDA x : x[2])
    IN  [i \in 1..Len(doms) |-> doms[i][1]]

find_dominators_wide_rev(entries, versions) ==
    IF Len(versions) <= 1 THEN versions
    ELSE LET min_v == Min(Range(versions))
             max_v == Max(Range(versions))
             last_entry == find_packed(entries, max_v)
         IN  IF last_entry.shadow <= min_v THEN <<max_v>>
             ELSE dom_only(find_dominators_full_internal(entries, versions, min_v))

find_dominators(entries, versions) ==
    Reverse(find_dominators_wide_rev(entries, versions))

find_dominators_full(entries, versions) ==
    find_dominators_full_internal(entries, versions, USIZE_MAX)

\* Mutant: the dominators are returned in visit order, highest first.
version_union_unreversed(entries, a, b) ==
    dom_only(find_dominators_full(entries, a \o b))

version_union(entries, a, b) ==
    Reverse(dom_only(find_dominators_full(entries, a \o b)))

---------------------------------------------------------------------------
(* The op-log and its push protocol *)

AgentNames == {"seph", "mike"}

EmptyOpLog ==
    [ entries |-> <<>>,
      client_with_localtime |-> <<>>,
      client_data |-> <<>>,
      operations |-> <<>>,
      frontier |-> <<>> ]

\* OpLog::get_agent_id: the index (0-based) of the agent of that name, or -1.
get_agent_id(log, name) ==
    IF \E i \in 1..Len(log.client_data) : log.client_data[i].name = name
    THEN (CHOOSE i \in 1..Len(log.client_data) : log.client_data[i].name = name) - 1
    ELSE -1

get_or_create_agent_id(log, name) ==
    IF get_agent_id(log, name) >= 0 THEN log
    ELSE [log EXCEPT !.client_data =
              Append(@, [name |-> name, next_seq |-> 0])]

\* client_with_localtime is a run-length list of [start, agent, seq, len].
cwl_run_of(log, lv) ==
    log.client_with_localtime[
        CHOOSE i \in 1..Len(log.client_with_localtime) :
            LET r == log.client_with_localtime[i]
            IN  r.start <= lv /\ lv < r.start + r.len]

\* OpLog::time_to_crdt_id
time_to_crdt_id(log, lv) ==
    LET r == cwl_run_of(log, lv)
    IN  [agent |-> r.agent, seq |-> r.seq + (lv - r.start)]

\* A shadow that is 0 for every entry without parents.
RECURSIVE new_shadow_root_zero(_, _, _)
new_shadow_root_zero(entries, parents, shadow) ==
    IF parents = <<>> THEN 0
    ELSE IF shadow >= 1 /\ (shadow - 1) \in Range(parents)
    THEN new_shadow_root_zero(entries, parents, shadow_of(entries, shadow - 1))
    ELSE shadow

\* The shadow given to a new entry at `start` with these parents: walk down
\* while the LV just below the shadow is itself one of the parents.
RECURSIVE new_shadow(_, _, _)
new_shadow(entries, parents, shadow) ==
    IF shadow >= 1 /\ (shadow - 1) \in Range(parents)
    THEN new_shadow(entries, parents, shadow_of(entries, shadow - 1))
    ELSE shadow

\* Graph::push: extend the last entry when the new run continues it (its sole
\* parent is the last LV and the same agent wrote it, `same_agent`), else
\* append an entry.
graph_push(entries, parents, lv, k, same_agent) ==
    LET n == Len(entries)
    IN  IF /\ n > 0
           /\ entries[n].end = lv
           /\ parents = <<lv - 1>>
           /\ same_agent
        THEN [entries EXCEPT ![n].end = lv + k]
        ELSE Append(entries,
                    [start |-> lv, end |-> lv + k, parents |-> parents,
                     shadow |-> new_shadow(entries, parents, lv)])

\* Does a run by `agent` starting at lv continue the agent and sequence of
\* lv - 1?
continues_agent(log, agent, lv) ==
    /\ lv > 0
    /\ time_to_crdt_id(log, lv - 1).agent = agent
    /\ time_to_crdt_id(log, lv - 1).seq + 1 = log.client_data[agent + 1].next_seq

\* Append k LVs of `agent` to the agent assignment (run-length merged).
assign_push(log, agent, lv, k) ==
    LET cwl == log.client_with_localtime
        n == Len(cwl)
        seq == log.client_data[agent + 1].next_seq
    IN  IF n > 0 /\ cwl[n].agent = agent /\ cwl[n].seq + cwl[n].len = seq
                 /\ cwl[n].start + cwl[n].len = lv
        THEN [cwl EXCEPT ![n].len = @ + k]
        ELSE Append(cwl, [start |-> lv, agent |-> agent, seq |-> seq, len |-> k])

\* Frontier after a push that allocated [lv, lv + k): drop every element that
\* is an ancestor of the new last LV, then add the new last LV.
advance_frontier(entries, frontier, last) ==
    SelectSeq(frontier,
              LAMBDA f : ~frontier_contains_version(entries, <<last>>, f))
        \o <<last>>

---------------------------------------------------------------------------
(* Operations: run-length entries [kind, pos, len, fwd, content], content a *)
(* sequence of characters (empty for a delete).                             *)

\* Operation::can_append. An insert continues an insert that ends where it
\* starts; a delete continues a delete at the same position (forward) or one
\* ending where the first starts (backspace). Insert and delete never merge.
op_can_append(a, b) ==
    /\ a.kind = b.kind
    /\ \/ /\ a.kind = "Ins" /\ a.fwd /\ b.fwd /\ b.pos = a.pos + a.len
       \/ /\ a.kind = "Del"
          /\ (a.len = 1 \/ a.fwd) /\ (b.len = 1 \/ b.fwd)
          /\ b.pos = a.pos
       \/ /\ a.kind = "Del"
          /\ (a.len = 1 \/ ~a.fwd) /\ (b.len = 1 \/ ~b.fwd)
          /\ b.pos + b.len = a.pos

\* Operation::append
op_append(a, b) ==
    IF a.kind = "Ins"
    THEN [a EXCEPT !.len = a.len + b.len, !.content = a.content \o b.content]
    ELSE IF b.pos = a.pos /\ (a.len = 1 \/ a.fwd) /\ (b.len = 1 \/ b.fwd)
         THEN [a EXCEPT !.len = a.len + b.len, !.fwd = TRUE]
         ELSE [a EXCEPT !.pos = b.pos, !.len = a.len + b.len, !.fwd = FALSE]

\* RleVec::push on the operation table, keyed by the first LV of the run.
operations_push(operations, lv, op) ==
    LET n == Len(operations)
    IN  IF /\ n > 0
           /\ operations[n].start + operations[n].op.len = lv
           /\ op_can_append(operations[n].op, op)
        THEN [operations EXCEPT ![n].op = op_append(@, op)]
        ELSE Append(operations, [start |-> lv, op |-> op])

\* OpLog::push_op_internal / assign_time_to_client: one local operation of
\* length op.len by `agent` (0-based agent id) on top of `parents`.
push_op(log, agent, parents, op) ==
    LET lv == next_lv(log.entries)
        k == op.len
        entries2 == graph_push(log.entries, parents, lv, k,
                               continues_agent(log, agent, lv))
    IN  [ entries |-> entries2,
          client_with_localtime |-> assign_push(log, agent, lv, k),
          client_data |-> [log.client_data EXCEPT ![agent + 1].next_seq = @ + k],
          operations |-> operations_push(log.operations, lv, op),
          frontier |-> advance_frontier(entries2, log.frontier, lv + k - 1) ]

\* OpLog::add_insert (dt-wasm): parents default to the local frontier.
add_insert(log, agent, pos, content, parents_in) ==
    LET parents == IF parents_in.some THEN parents_in.v ELSE log.frontier
    IN  push_op(log, agent, parents,
                [kind |-> "Ins", pos |-> pos, len |-> Len(content),
                 fwd |-> TRUE, content |-> content])

\* OpLog::add_delete (dt-wasm)
add_delete(log, agent, pos, len, parents_in) ==
    LET parents == IF parents_in.some THEN parents_in.v ELSE log.frontier
    IN  push_op(log, agent, parents,
                [kind |-> "Del", pos |-> pos, len |-> len,
                 fwd |-> TRUE, content |-> <<>>])

---------------------------------------------------------------------------
(* Inputs *)

\* Every valid parent frontier of a log: the antichains of its LVs, sorted.
Frontiers(entries) ==
    { SortedSeq(S) : S \in
        { T \in SUBSET (0..(next_lv(entries) - 1)) :
            \A x, y \in T : x /= y => ~IsAncestor(entries, x, y) } }

\* Option<Box<[usize]>>: None, or Some(frontier).
ParentInputs(entries) ==
    {[some |-> FALSE, v |-> <<>>]}
        \cup {[some |-> TRUE, v |-> f] : f \in Frontiers(entries)}

AgentIds(log) == 0..(Len(log.client_data) - 1)

Chars == {"a"}

\* Inserted text of length 1..MaxOpLen.
Contents == UNION { [1..n -> Chars] : n \in 1..MaxOpLen }

Positions == {0}

---------------------------------------------------------------------------
(* Actions on the op-log *)

SetAgent ==
    /\ \E name \in AgentNames :
          /\ get_agent_id(oplog, name) < 0
          /\ oplog' = get_or_create_agent_id(oplog, name)
    /\ UNCHANGED <<graph, query, other, tree, cursor, iter>>

AddInsert ==
    /\ \E parents_in \in ParentInputs(oplog.entries) :
          \E agent \in AgentIds(oplog), pos \in Positions, content \in Contents :
             /\ next_lv(oplog.entries) + Len(content) <= MaxLV
             /\ oplog' = add_insert(oplog, agent, pos, content, parents_in)
    /\ UNCHANGED <<graph, query, other, tree, cursor, iter>>

AddDelete ==
    /\ \E parents_in \in ParentInputs(oplog.entries) :
          \E agent \in AgentIds(oplog), pos \in Positions, len \in 1..MaxOpLen :
             /\ next_lv(oplog.entries) + len <= MaxLV
             /\ oplog' = add_delete(oplog, agent, pos, len, parents_in)
    /\ UNCHANGED <<graph, query, other, tree, cursor, iter>>

---------------------------------------------------------------------------
(* Op-log equality (list/eq.rs)                                            *)

\* The positional crate writes the root version as the single parent
\* ROOT_TIME; the graph above writes it as no parent.
ROOT_TIME == USIZE_MAX

ROOT_AGENT == USIZE_MAX

\* Marks an agent of self that other lacks or holds with another length.
AgentMismatch == -2

history_parents(parents) == IF parents = <<>> THEN <<ROOT_TIME>> ELSE parents

frontier_eq(a, b) == a = b

\* OpLog::len
oplog_len(log) == next_lv(log.entries)

\* [self.agent] => other.agent, or AgentMismatch.
agent_a_to_b(self, o) ==
    [i \in 1..Len(self.client_data) |->
        LET c == self.client_data[i]
            other_agent == get_agent_id(o, c.name)
        IN  IF other_agent >= 0
            THEN IF o.client_data[other_agent + 1].next_seq /= c.next_seq
                 THEN AgentMismatch
                 ELSE other_agent
            ELSE IF c.next_seq = 0 THEN ROOT_AGENT ELSE AgentMismatch]

\* OpLog::crdt_id_to_time
crdt_id_to_time(log, agent, seq) ==
    LET r == log.client_with_localtime[
                CHOOSE i \in 1..Len(log.client_with_localtime) :
                    LET x == log.client_with_localtime[i]
                    IN  x.agent = agent /\ x.seq <= seq /\ seq < x.seq + x.len]
    IN  r.start + (seq - r.seq)

map_time_to_other(self, o, map, t) ==
    IF t = ROOT_TIME THEN ROOT_TIME
    ELSE LET crdt_id == time_to_crdt_id(self, t)
         IN  crdt_id_to_time(o, map[crdt_id.agent + 1], crdt_id.seq)

\* RangeRev::eq: two spans of length <= 1 are equal whatever their direction.
rangerev_eq(a, b) ==
    a.pos = b.pos /\ a.len = b.len /\ (a.fwd = b.fwd \/ a.len <= 1)

\* Operation::eq
op_eq(a, b) ==
    a.kind = b.kind /\ rangerev_eq(a, b) /\ a.content = b.content

\* Operation::truncate, the part kept: the first `at` items. A forward delete
\* stays at its position; a reversed span keeps its upper end
\* (RangeRev::truncate_h).
op_keep_left(op, at) ==
    IF op.kind = "Ins"
    THEN [op EXCEPT !.len = at, !.content = SubSeq(op.content, 1, at)]
    ELSE IF op.fwd THEN [op EXCEPT !.len = at]
    ELSE [op EXCEPT !.pos = op.pos + op.len - at, !.len = at]

\* Operation::truncate, the remainder (also truncate_keeping_right).
op_keep_right(op, at) ==
    IF op.kind = "Ins"
    THEN [op EXCEPT !.pos = op.pos + at, !.len = op.len - at,
                    !.content = SubSeq(op.content, at + 1, op.len)]
    ELSE [op EXCEPT !.len = op.len - at]

\* find_packed_with_offset on the operation table.
op_run_of(log, lv) ==
    log.operations[
        CHOOSE i \in 1..Len(log.operations) :
            LET r == log.operations[i]
            IN  r.start <= lv /\ lv < r.start + r.op.len]

\* MinimalHistoryEntry of the CG entry holding lv, truncated to
\* [lv, lv + len).
history_at(log, lv, len) ==
    LET e == find_packed(log.entries, lv)
    IN  [start |-> lv,
         end |-> Min({e.end, lv + len}),
         parents |-> IF lv > e.start THEN <<lv - 1>>
                     ELSE history_parents(e.parents)]

\* End of the rle_zip chunk that starts at lv: the nearest run boundary of
\* the operation table, the CG entries and the agent assignment.
zip_end(log, lv) ==
    LET o == op_run_of(log, lv)
        r == cwl_run_of(log, lv)
    IN  Min({o.start + o.op.len, find_packed(log.entries, lv).end,
             r.start + r.len})

\* The operation of the rle_zip chunk [lv, end).
zip_op(log, lv, end) ==
    LET o == op_run_of(log, lv)
    IN  op_keep_left(op_keep_right(o.op, lv - o.start), end - lv)

\* The inner loop of eq: compare [lv, lv + op.len) of self with other, one
\* overlap at a time.
RECURSIVE eq_chunk(_, _, _, _, _)
eq_chunk(self, o, map, op, txn) ==
    LET other_time == map_time_to_other(self, o, map, txn.start)
        run == op_run_of(o, other_time)
        other_op_r == op_keep_right(run.op, other_time - run.start)
        other_op == IF other_op_r.len > op.len
                    THEN op_keep_left(other_op_r, op.len) ELSE other_op_r
        has_rem == op.len > other_op.len
        op_here == IF has_rem THEN op_keep_left(op, other_op.len) ELSE op
        len_here == op_here.len
        other_txn == history_at(o, other_time, len_here)
        mapped_txn ==
            [start |-> other_time,
             end |-> other_time + len_here,
             parents |-> SortedSeq({map_time_to_other(self, o, map, p) :
                                        p \in Range(txn.parents)})]
    IN  IF ~op_eq(op_here, other_op) THEN FALSE
        ELSE IF other_txn /= mapped_txn THEN FALSE
        ELSE IF has_rem
             THEN eq_chunk(self, o, map, op_keep_right(op, len_here),
                           [start |-> txn.start + len_here, end |-> txn.end,
                            parents |-> <<txn.start + len_here - 1>>])
             ELSE TRUE

\* The outer loop of eq over the rle_zip chunks of self from lv on.
RECURSIVE eq_loop(_, _, _, _)
eq_loop(self, o, map, lv) ==
    IF lv >= oplog_len(self) THEN TRUE
    ELSE LET end == zip_end(self, lv)
         IN  /\ eq_chunk(self, o, map, zip_op(self, lv, end),
                         history_at(self, lv, end - lv))
             /\ eq_loop(self, o, map, end)

\* impl PartialEq for OpLog: "true", "false", or "panic" when the length
\* assertion fails.
oplog_eq(self, o) ==
    IF ~frontier_eq(self.frontier, o.frontier) THEN "false"
    ELSE IF oplog_len(self) /= oplog_len(o) THEN "panic"
    ELSE LET map == agent_a_to_b(self, o)
         IN  IF \E i \in 1..Len(map) : map[i] = AgentMismatch THEN "false"
             ELSE IF eq_loop(self, o, map, 0) THEN "true" ELSE "false"

\* The operation of one LV: kind, position and content of that item alone.
op_item(log, lv) ==
    LET o == op_run_of(log, lv)
        one == op_keep_left(op_keep_right(o.op, lv - o.start), 1)
    IN  [kind |-> one.kind, pos |-> one.pos, content |-> one.content]

\* (agent name, seq) of one LV.
item_id(log, lv) ==
    LET id == time_to_crdt_id(log, lv)
    IN  [name |-> log.client_data[id.agent + 1].name, seq |-> id.seq]

\* The operations a log holds, free of local versions and agent ids.
OpSet(log) ==
    { [id |-> item_id(log, lv),
       op |-> op_item(log, lv),
       parents |-> {item_id(log, p) : p \in ParentsOfLV(log.entries, lv)}] :
         lv \in 0..(oplog_len(log) - 1) }

---------------------------------------------------------------------------
(* Two op-logs built side by side and compared (eq.rs, eq_smoke_test):      *)
(* `oplog` is built first, then `other`, then eq is asked once.             *)

EqPositions == {0}

\* The operations pushed: an insert of one character or a delete of one item.
EqOps ==
    {[kind |-> "Ins", pos |-> p, len |-> 1, fwd |-> TRUE, content |-> <<c>>] :
        p \in EqPositions, c \in Chars}
    \cup {[kind |-> "Del", pos |-> p, len |-> 1, fwd |-> TRUE, content |-> <<>>] :
        p \in EqPositions}

\* The order in which log a of eq_smoke_test creates its agents.
AgentOrder == <<"seph", "mike">>

\* a.get_or_create_agent_id(name), in the order of AgentOrder
CreateAgent ==
    /\ query = [op |-> "none"]
    /\ other = EmptyOpLog
    /\ Len(oplog.client_data) < Len(AgentOrder)
    /\ oplog' = get_or_create_agent_id(
                    oplog, AgentOrder[Len(oplog.client_data) + 1])
    /\ UNCHANGED <<graph, query, other, tree, cursor, iter>>

\* a.push_insert_at(agent, parents, pos, content) / a.push_delete_at(...)
PushAt ==
    /\ query = [op |-> "none"]
    /\ other = EmptyOpLog
    /\ \E parents \in Frontiers(oplog.entries) :
          \E agent \in AgentIds(oplog), op \in EqOps :
             /\ oplog_len(oplog) + op.len <= MaxEqLV
             /\ oplog' = push_op(oplog, agent, parents, op)
    /\ UNCHANGED <<graph, query, other, tree, cursor, iter>>

\* b.get_or_create_agent_id(name), in any order
OtherCreateAgent ==
    /\ query = [op |-> "none"]
    /\ \E name \in AgentNames :
          /\ get_agent_id(other, name) < 0
          /\ other' = get_or_create_agent_id(other, name)
    /\ UNCHANGED <<graph, query, oplog, tree, cursor, iter>>

\* b.push_insert_at(agent, parents, pos, content) / b.push_delete_at(...)
OtherPushAt ==
    /\ query = [op |-> "none"]
    /\ \E parents \in Frontiers(other.entries) :
          \E agent \in AgentIds(other), op \in EqOps :
             /\ oplog_len(other) + op.len <= MaxEqLV
             /\ other' = push_op(other, agent, parents, op)
    /\ UNCHANGED <<graph, query, oplog, tree, cursor, iter>>

\* is_eq(a, b): a.eq(b), then b.eq(a)
EqQuery ==
    /\ query = [op |-> "none"]
    /\ query' = [op |-> "eq", result |-> oplog_eq(oplog, other),
                 reverse |-> oplog_eq(other, oplog)]
    /\ UNCHANGED <<graph, oplog, other, tree, cursor, iter>>

---------------------------------------------------------------------------
(* Actions on a bare causal graph *)

\* `query` records the one read-only query issued on the graph built so far.
NoQuery == [op |-> "none"]

\* No content tree, no cursor and no iterator have been constructed.
NoTree == [op |-> "none"]

NoCursor == [op |-> "none"]

NoIter == [op |-> "none"]

\* Graph::push of one entry, as Graph::from_simple_items does per item.
GraphPush ==
    /\ query = NoQuery
    /\ \E parents \in Frontiers(graph), k \in 1..MaxOpLen, same_agent \in BOOLEAN :
          /\ next_lv(graph) + k <= MaxGraphLV
          /\ graph' = graph_push(graph, parents, next_lv(graph), k, same_agent)
    /\ UNCHANGED <<query, oplog, other, tree, cursor, iter>>

\* Sorted, duplicate-free lists of at most n LVs of the graph.
VersionLists(entries, n) ==
    { SortedSeq(S) : S \in { T \in SUBSET (0..(next_lv(entries) - 1)) :
                                 Cardinality(T) <= n } }

LVs(entries) == 0..(next_lv(entries) - 1)

ContainsQuery ==
    /\ query = NoQuery
    /\ \E frontier \in VersionLists(graph, MaxFrontier), target \in LVs(graph) :
          query' = [ op |-> "frontier_contains_version",
                     frontier |-> frontier, target |-> target,
                     result |-> frontier_contains_version(graph, frontier, target) ]
    /\ UNCHANGED <<graph, oplog, other, tree, cursor, iter>>

CmpQuery ==
    /\ query = NoQuery
    /\ \E v1 \in LVs(graph), v2 \in LVs(graph) :
          query' = [ op |-> "version_cmp", v1 |-> v1, v2 |-> v2,
                     result |-> version_cmp(graph, v1, v2),
                     swapped |-> version_cmp(graph, v2, v1) ]
    /\ UNCHANGED <<graph, oplog, other, tree, cursor, iter>>

DiffQuery ==
    /\ query = NoQuery
    /\ \E a \in VersionLists(graph, MaxVersions),
          b \in VersionLists(graph, MaxVersions) :
          query' = [ op |-> "diff", a |-> a, b |-> b,
                     result |-> diff(graph, a, b),
                     result_rev |-> diff_rev(graph, a, b),
                     result_slow |-> diff_slow(graph, a, b) ]
    /\ UNCHANGED <<graph, oplog, other, tree, cursor, iter>>

\* Ascending lists of at most n LVs of the graph, repeats allowed.
AscendingLists(entries, n) ==
    UNION { { s \in [1..m -> LVs(entries)] :
                \A i \in 1..(m - 1) : s[i] <= s[i + 1] } : m \in 0..n }

DominatorsQuery ==
    /\ query = NoQuery
    /\ \E versions \in AscendingLists(graph, MaxFrontier) :
          query' = [ op |-> "find_dominators", versions |-> versions,
                     result |-> find_dominators(graph, versions) ]
    /\ UNCHANGED <<graph, oplog, other, tree, cursor, iter>>

UnionQuery ==
    /\ query = NoQuery
    /\ \E a \in VersionLists(graph, MaxVersions),
          b \in VersionLists(graph, MaxVersions) :
          LET u == version_union(graph, a, b)
          IN  query' = [ op |-> "version_union", a |-> a, b |-> b,
                         result |-> u,
                         dominators_of_union |->
                             find_dominators(graph, SortedSeq(Range(a) \cup Range(b))),
                         dominators_of_result |-> find_dominators(graph, u) ]
    /\ UNCHANGED <<graph, oplog, other, tree, cursor, iter>>

\* Frontiers of at most n versions.
SmallFrontiers(entries, n) == { f \in Frontiers(entries) : Len(f) <= n }

ConflictingQuery ==
    /\ query = NoQuery
    /\ \E a \in SmallFrontiers(graph, MaxVersions),
          b \in SmallFrontiers(graph, MaxVersions), tie \in BOOLEAN :
          query' = [ op |-> "find_conflicting", a |-> a, b |-> b,
                     result |-> find_conflicting(graph, a, b, tie),
                     result_slow |-> find_conflicting_slow(graph, a, b, tie),
                     diff_slow |-> diff_slow(graph, a, b) ]
    /\ UNCHANGED <<graph, oplog, other, tree, cursor, iter>>

Init ==
    /\ graph = <<>>
    /\ query = NoQuery
    /\ oplog = EmptyOpLog
    /\ other = EmptyOpLog
    /\ tree = NoTree
    /\ cursor = NoCursor
    /\ iter = NoIter

Next == SetAgent \/ AddInsert \/ AddDelete

Spec == Init /\ [][Next]_vars

SpecGraph == Init /\ [][GraphPush]_vars

SpecContains == Init /\ [][GraphPush \/ ContainsQuery]_vars

SpecCmp == Init /\ [][GraphPush \/ CmpQuery]_vars

SpecDiff == Init /\ [][GraphPush \/ DiffQuery]_vars

SpecDominators == Init /\ [][GraphPush \/ DominatorsQuery]_vars

SpecUnion == Init /\ [][GraphPush \/ UnionQuery]_vars

SpecConflicting == Init /\ [][GraphPush \/ ConflictingQuery]_vars

NextEq == CreateAgent \/ PushAt \/ OtherCreateAgent \/ OtherPushAt \/ EqQuery

SpecEq == Init /\ [][NextEq]_vars

---------------------------------------------------------------------------
(* Claims *)

\* C1: diff(A, B) returns (onlyA, onlyB) where onlyA covers exactly the LVs in
\* the history of A but not of B, and onlyB exactly those in the history of B
\* but not of A; no shared LV appears in either list.
DiffMatchesHistories ==
    query.op = "diff" =>
        LET ha == History(graph, Range(query.a))
            hb == History(graph, Range(query.b))
        IN  /\ Covered(query.result.a) = ha \ hb
            /\ Covered(query.result.b) = hb \ ha

\* A diff through the heap walk with something on both sides and a shared part.
DiffWitness ==
    /\ query.op = "diff"
    /\ Len(query.a) = 2
    /\ query.result.a /= <<>> /\ query.result.b /= <<>>
    /\ History(graph, Range(query.a)) \cap History(graph, Range(query.b)) /= {}

\* C2: frontier_contains_version(F, t) is true iff t is an element of F or a
\* transitive ancestor of one; false for the empty F.
ContainsIffInHistory ==
    query.op = "frontier_contains_version" =>
        (query.result <=> query.target \in History(graph, Range(query.frontier)))

\* A positive answer found by the heap walk: the target is no element of F and
\* lies under the shadow of no element of F.
ContainsWitness ==
    /\ query.op = "frontier_contains_version"
    /\ query.result
    /\ query.target \notin Range(query.frontier)
    /\ \A i \in 1..Len(query.frontier) :
           ~(query.frontier[i] > query.target
             /\ shadow_contains(find_packed(graph, query.frontier[i]), query.target))

\* C5: version_cmp is Equal iff v1 = v2, Less iff v1 is a strict ancestor of
\* v2, Greater iff v2 is a strict ancestor of v1, None iff concurrent; and
\* version_cmp(v2, v1) is the reverse ordering.
CmpReverse(r) ==
    IF r = "Less" THEN "Greater" ELSE IF r = "Greater" THEN "Less" ELSE r

VersionCmpMatchesAncestry ==
    query.op = "version_cmp" =>
        /\ (query.result = "Equal") <=> (query.v1 = query.v2)
        /\ (query.result = "Less") <=> IsAncestor(graph, query.v1, query.v2)
        /\ (query.result = "Greater") <=> IsAncestor(graph, query.v2, query.v1)
        /\ (query.result = "None") <=>
               /\ query.v1 /= query.v2
               /\ ~IsAncestor(graph, query.v1, query.v2)
               /\ ~IsAncestor(graph, query.v2, query.v1)
        /\ query.swapped = CmpReverse(query.result)

\* Two concurrent versions with v1 numerically above v2.
VersionCmpWitness ==
    /\ query.op = "version_cmp"
    /\ query.result = "None"
    /\ query.v1 > query.v2

\* The elements of V that are a strict ancestor of no other element of V.
Dominators(entries, V) ==
    { v \in V : \A w \in V : ~IsAncestor(entries, v, w) }

\* C3: for an ascending list V, find_dominators(V) is the ascending,
\* duplicate-free list of the elements of V that are a strict ancestor of no
\* other element of V.
FindDominatorsIsMinimalSubset ==
    query.op = "find_dominators" =>
        query.result = SortedSeq(Dominators(graph, Range(query.versions)))

\* The heap walk ran (the maximum's shadow does not cover the minimum) and it
\* dropped an input that is an ancestor of another.
FindDominatorsWitness ==
    /\ query.op = "find_dominators"
    /\ Len(query.versions) >= 2
    /\ find_packed(graph, Max(Range(query.versions))).shadow
           > Min(Range(query.versions))
    /\ Len(query.result) >= 2
    /\ Cardinality(Range(query.versions)) > Len(query.result)

\* C6: version_union(A, B) equals find_dominators of the sorted union of A and
\* B, is a frontier whose history is the union of both histories, and is a
\* fixed point of find_dominators.
VersionUnionIsDominatorsOfUnion ==
    query.op = "version_union" =>
        /\ query.result = query.dominators_of_union
        /\ query.dominators_of_result = query.result
        /\ IsFrontier(graph, query.result)
        /\ History(graph, Range(query.result))
               = History(graph, Range(query.a) \cup Range(query.b))

\* A and B share an element and the union still has two heads.
VersionUnionWitness ==
    /\ query.op = "version_union"
    /\ Range(query.a) \cap Range(query.b) /= {}
    /\ query.a /= query.b
    /\ Len(query.result) = 2

\* The LVs of one visited range.
VisitedLVs(r) == r.start .. (r.end - 1)

\* C4: find_conflicting(A, B, visit) returns a frontier C inside the history of
\* both A and B, and visits pairwise disjoint ranges whose union is the LVs in
\* the history of A or B but not of C, each LV flagged OnlyA, OnlyB or Shared
\* by the histories it is in. When A = B nothing is visited and C = A.
FindConflictingCoversConflictZone ==
    query.op = "find_conflicting" =>
        LET ha == History(graph, Range(query.a))
            hb == History(graph, Range(query.b))
            c == query.result.frontier
            v == query.result.visited
        IN  /\ Range(c) \subseteq (ha \cap hb)
            /\ \A i, j \in 1..Len(v) :
                   i /= j => VisitedLVs(v[i]) \cap VisitedLVs(v[j]) = {}
            /\ UNION { VisitedLVs(v[i]) : i \in 1..Len(v) }
                   = (ha \cup hb) \ History(graph, Range(c))
            /\ \A i \in 1..Len(v) : \A x \in VisitedLVs(v[i]) :
                   v[i].flag = (IF x \in ha /\ x \in hb THEN Shared
                                ELSE IF x \in ha THEN OnlyA ELSE OnlyB)
            /\ (query.a = query.b => (v = <<>> /\ c = query.a))

\* All three flags were visited on the heap walk.
FindConflictingWitness ==
    /\ query.op = "find_conflicting"
    /\ Len(query.a) = 2
    /\ \A f \in {OnlyA, OnlyB, Shared} :
           \E i \in 1..Len(query.result.visited) : query.result.visited[i].flag = f

\* C7: after any sequence of pushes the op-log's frontier is strictly
\* ascending, duplicate free and dominator-minimal.
FrontierIsMinimal ==
    IsFrontier(oplog.entries, oplog.frontier)

\* A push on two concurrent heads replaced both, and a later concurrent push
\* left two heads.
FrontierWitness ==
    /\ Len(oplog.frontier) = 2
    /\ \E i \in 1..Len(oplog.entries) : Len(oplog.entries[i].parents) = 2

\* C8: after any sequence of pushes every assigned LV is contained in the
\* frontier, whose history is therefore the whole op-log; the last LV is an
\* element of the frontier.
FrontierContainsEveryLV ==
    /\ \A t \in LVs(oplog.entries) :
           frontier_contains_version(oplog.entries, oplog.frontier, t)
    /\ History(oplog.entries, Range(oplog.frontier)) = LVs(oplog.entries)
    /\ oplog.entries /= <<>> =>
           oplog.frontier[Len(oplog.frontier)] = next_lv(oplog.entries) - 1

\* A frontier of one head that reaches an LV only through a merge.
FrontierContainsWitness ==
    /\ Len(oplog.frontier) = 1
    /\ Len(oplog.entries) >= 3
    /\ \E t \in LVs(oplog.entries) :
           ~shadow_contains(find_packed(oplog.entries, oplog.frontier[1]), t)

\* C9: every entry e has e.shadow <= e.span.start and every LV in
\* [e.shadow, e.span.start) is in the history of e's parents; so the shadow
\* test never reports a non-ancestor as an ancestor.
ShadowIsSound ==
    /\ \A i \in 1..Len(graph) :
           LET e == graph[i]
           IN  /\ e.shadow <= e.start
               /\ \A x \in e.shadow .. (e.start - 1) :
                      /\ frontier_contains_version(graph, e.parents, x)
                      /\ x \in History(graph, Range(e.parents))
    /\ \A a, b \in LVs(graph) :
           txn_shadow_contains(graph, a, b) => b \in History(graph, {a})

\* An entry with two parents whose shadow reaches below its start.
ShadowWitness ==
    \E i \in 1..Len(graph) :
        /\ Len(graph[i].parents) = 2
        /\ graph[i].shadow < graph[i].start

---------------------------------------------------------------------------
\* C10: two op-logs compare equal exactly when they hold the same set of
\* operations: the same (agent name, seq) identities with the same kind,
\* position, direction and content and the same parents written as
\* (agent name, seq), whatever the order in which agent ids were created and
\* whatever the causally valid order of the pushes.
EqIffSameOperations ==
    query.op = "eq" =>
        ((query.result = "true") <=> (OpSet(oplog) = OpSet(other)))

\* C11: op-log equality is symmetric: a.eq(b) and b.eq(a) return the same
\* boolean for every pair of op-logs built by pushes, and neither call
\* panics on the length assertion.
EqIsSymmetric ==
    query.op = "eq" =>
        /\ query.result = query.reverse
        /\ query.result /= "panic"

---------------------------------------------------------------------------
(* Varints (list/encoding/varint.rs).                                       *)
(* A u64 is held as its ten base-128 digits, least significant first: digit *)
(* i is bits 7i..7i+6, and the tenth digit is bit 63 alone. A u32 is the    *)
(* same with five digits, the fifth being bits 28..31. Bytes are 0..255.    *)

Zeros(n) == [i \in 1..n |-> 0]

\* value & !0x7F > 0: a bit above the low seven is set.
\* (The variant takes 0x7F itself for a value that needs another byte.)
has_high_bits_from_7f(value) ==
    (\E i \in 2..Len(value) : value[i] /= 0) \/ value[1] >= 127

has_high_bits(value) == \E i \in 2..Len(value) : value[i] /= 0

\* value >>= 7
shr7(value) == Tail(value) \o <<0>>

\* value as u8: the low eight bits.
as_u8(value) == value[1] + 128 * (value[2] % 2)

\* encode_u64 / encode_u32 from byte i (0-based) on; `last` is the index of
\* the byte written without a test (9 or 4). Returns the buffer and the
\* number of bytes used.
RECURSIVE encode_from(_, _, _, _)
encode_from(value, buf, i, last) ==
    IF i = last
    THEN [buf |-> [buf EXCEPT ![i + 1] = as_u8(value)], used |-> last + 1]
    ELSE IF has_high_bits(value)
         THEN encode_from(shr7(value),
                          [buf EXCEPT ![i + 1] = value[1] + 128], i + 1, last)
         ELSE [buf |-> [buf EXCEPT ![i + 1] = as_u8(value)], used |-> i + 1]

encode_u64(value, buf) == encode_from(value, buf, 0, 9)

encode_u32(value, buf) == encode_from(value, buf, 0, 4)

\* ((b & 0x7f) as u64) << (i * 7), as the digit it sets: a shift by 63
\* keeps the lowest bit only.
\* (The variant forgets the mask.)
digit_of_unmasked(b, i) == IF i = 9 THEN b % 2 ELSE b

digit_of(b, i) == IF i = 9 THEN (b % 128) % 2 ELSE b % 128

\* i == 9 && (b & 0x7f) > 1
\* (The variant never rejects the tenth byte.)
tenth_byte_invalid_never(b, i) == FALSE

tenth_byte_invalid(b, i) == i = 9 /\ (b % 128) > 1

Decoded(r, i) == [err |-> "none", value |-> r, used |-> i]

Panic(what) == [err |-> what, value |-> Zeros(10), used |-> 0]

\* decode_u64_slow from byte i on; reading past the buffer is an index panic.
RECURSIVE decode_slow_from(_, _, _)
decode_slow_from(buf, r, i) ==
    IF i = 10 THEN Panic("InvalidVarint")
    ELSE IF i >= Len(buf) THEN Panic("IndexOutOfBounds")
    ELSE LET b == buf[i + 1]
         IN  IF tenth_byte_invalid(b, i) THEN Panic("InvalidVarint")
             ELSE LET r2 == [r EXCEPT ![i + 1] = digit_of(b, i)]
                  IN  IF b < 128 THEN Decoded(r2, i + 1)
                      ELSE decode_slow_from(buf, r2, i + 1)

decode_u64_slow(buf) == decode_slow_from(buf, Zeros(10), 0)

\* The loop of decode_u64 for buffers of at least ten bytes.
RECURSIVE decode_fast_from(_, _, _)
decode_fast_from(buf, r, i) ==
    IF ~(i < Len(buf) /\ i < 10) THEN Panic("InvalidVarint")
    ELSE LET b == buf[i + 1]
         IN  IF tenth_byte_invalid(b, i) THEN Panic("InvalidVarint")
             ELSE LET r2 == [r EXCEPT ![i + 1] = digit_of(b, i)]
                  IN  IF b < 128 THEN Decoded(r2, i + 1)
                      ELSE decode_fast_from(buf, r2, i + 1)

decode_u64(buf) ==
    IF buf = <<>> THEN Panic("NotEnoughBytes")
    ELSE IF buf[1] < 128
         THEN Decoded([Zeros(10) EXCEPT ![1] = buf[1]], 1)
    ELSE IF Len(buf) >= 2 /\ buf[2] < 128
         THEN Decoded([Zeros(10) EXCEPT ![1] = buf[1] % 128, ![2] = buf[2]], 2)
    ELSE IF Len(buf) >= 10 THEN decode_fast_from(buf, Zeros(10), 0)
    ELSE decode_u64_slow(buf)

\* u32::MAX as u64
U32_MAX == <<127, 127, 127, 127, 15, 0, 0, 0, 0, 0>>

\* u64::MAX
U64_MAX == <<127, 127, 127, 127, 127, 127, 127, 127, 127, 1>>

\* a < b on u64 values.
u64_lt(a, b) ==
    \E i \in 1..10 : a[i] < b[i] /\ \A j \in (i + 1)..10 : a[j] = b[j]

\* val as u32: the low 32 bits.
as_u32(val) == <<val[1], val[2], val[3], val[4], val[5] % 16>>

\* The values encoded: every u64 whose digits are 0, 1 or 0x7f, and the
\* values of the source's tests and the u32 boundary.
DigitSamples == {0, 1, 127}

EdgeValues ==
    { <<44, 2, 0, 0, 0, 0, 0, 0, 0, 0>>,
      U32_MAX,
      <<126, 127, 127, 127, 15, 0, 0, 0, 0, 0>>,
      <<0, 0, 0, 0, 8, 0, 0, 0, 0, 0>>,
      <<0, 0, 0, 0, 16, 0, 0, 0, 0, 0>>,
      <<126, 127, 127, 127, 127, 127, 127, 127, 127, 1>>,
      U64_MAX }

U64Samples ==
    {v \in [1..10 -> DigitSamples] : v[10] <= 1} \cup EdgeValues

\* The buffers decoded: L bytes, the first r of them the continuation byte
\* c, the others the final byte t, and the tenth byte b10.
ContinuationBytes == {128, 129, 255}

FinalBytes == {0, 1, 127}

TenthBytes == {0, 1, 2, 127, 128, 129, 130, 255}

DecodeBuffers ==
    { [i \in 1..L |-> IF i = 10 THEN b10 ELSE IF i <= r THEN c ELSE t] :
        L \in 0..12, r \in 0..12, c \in ContinuationBytes,
        t \in FinalBytes, b10 \in TenthBytes }

InitVarint ==
    /\ graph = <<>>
    /\ oplog = EmptyOpLog
    /\ other = EmptyOpLog
    /\ tree = NoTree
    /\ cursor = NoCursor
    /\ iter = NoIter
    /\ \/ \E val \in U64Samples : query = [op |-> "val", val |-> val]
       \/ \E buf \in DecodeBuffers : query = [op |-> "buf", buf |-> buf]

\* test::check_enc_dec_unsigned(val)
CheckEncDecUnsigned ==
    /\ query.op = "val"
    /\ LET val == query.val
           e == encode_u64(val, Zeros(10))
           small == u64_lt(val, U32_MAX)
           e2 == IF small THEN encode_u32(as_u32(val), Zeros(5))
                 ELSE [buf |-> Zeros(5), used |-> 0]
       IN  query' = [op |-> "check_enc_dec_unsigned",
                     val |-> val,
                     buf |-> e.buf,
                     bytes_used |-> e.used,
                     v1 |-> decode_u64_slow(e.buf),
                     v2 |-> decode_u64(e.buf),
                     v3 |-> decode_u64_slow(SubSeq(e.buf, 1, e.used)),
                     is_u32 |-> small,
                     buf2 |-> e2.buf,
                     bytes_used_2 |-> e2.used]
    /\ UNCHANGED <<graph, oplog, other, tree, cursor, iter>>

\* decode_u64_slow(buf) and decode_u64(buf) on a buffer of any content
DecodeBuffer ==
    /\ query.op = "buf"
    /\ query' = [op |-> "decode",
                 buf |-> query.buf,
                 slow |-> decode_u64_slow(query.buf),
                 fast |-> decode_u64(query.buf)]
    /\ UNCHANGED <<graph, oplog, other, tree, cursor, iter>>

SpecVarint == InitVarint /\ [][CheckEncDecUnsigned \/ DecodeBuffer]_vars

\* C12: for every u64 n, decoding the 10-byte buffer encode_u64 filled
\* returns (n, k) with k the number of bytes encode_u64 reported, from
\* decode_u64_slow and from decode_u64 alike, and decode_u64_slow returns the
\* same from the first k bytes alone.
VarintRoundTrip ==
    query.op = "check_enc_dec_unsigned" =>
        /\ query.v1 = Decoded(query.val, query.bytes_used)
        /\ query.v2 = Decoded(query.val, query.bytes_used)
        /\ query.v3 = Decoded(query.val, query.bytes_used)

\* A ten-byte value with bit 63 set came back from the loop of decode_u64.
VarintRoundTripWitness ==
    /\ query.op = "check_enc_dec_unsigned"
    /\ query.bytes_used = 10
    /\ query.val[10] = 1
    /\ query.val[3] = 127
    /\ query.v2.err = "none"

\* A malformed varint: nine continuation bytes and a tenth byte that either
\* continues the run or holds more than bit 63.
MalformedVarint(buf) ==
    /\ Len(buf) >= 10
    /\ \A i \in 1..9 : buf[i] >= 128
    /\ (buf[10] >= 128 \/ buf[10] % 128 > 1)

\* C13: decoding a malformed unsigned varint, a run of continuation bytes
\* longer than ten bytes or a tenth byte whose low seven bits exceed 1, fails
\* with the invalid-varint outcome in decode_u64_slow and in decode_u64,
\* whatever the length of the buffer.
MalformedVarintIsRejected ==
    (query.op = "decode" /\ MalformedVarint(query.buf)) =>
        /\ query.slow.err = "InvalidVarint"
        /\ query.fast.err = "InvalidVarint"

\* A buffer longer than ten bytes whose tenth byte has a legal low bit but
\* continues the run was decoded.
MalformedVarintWitness ==
    /\ query.op = "decode"
    /\ MalformedVarint(query.buf)
    /\ Len(query.buf) = 12
    /\ query.buf[10] = 129

\* Number of bytes of the canonical LEB128 form: max(1, ceil(bits / 7)).
CanonicalLen(val) ==
    IF \A i \in 1..10 : val[i] = 0 THEN 1
    ELSE Max({i \in 1..10 : val[i] /= 0})

\* C14: encode_u64 and encode_u32 write the canonical LEB128 form: exactly
\* max(1, ceil(bitlength / 7)) bytes, byte i holding bits 7i..7i+6, every
\* byte but the last with its high bit set and the last below 0x80; 0 is the
\* byte 0x00, 300 the bytes 0xAC 0x02, u64::MAX takes ten bytes; below
\* u32::MAX encode_u32 and encode_u64 write the same bytes and length.
EncodingIsCanonical ==
    query.op = "check_enc_dec_unsigned" =>
        LET k == CanonicalLen(query.val)
        IN  /\ query.bytes_used = k
            /\ \A i \in 1..10 :
                   query.buf[i] = IF i < k THEN query.val[i] + 128
                                  ELSE IF i = k THEN query.val[i]
                                  ELSE 0
            /\ query.val = Zeros(10) => query.buf[1] = 0
            /\ query.val = <<44, 2, 0, 0, 0, 0, 0, 0, 0, 0>> =>
                   (query.buf[1] = 172 /\ query.buf[2] = 2)
            /\ query.val = U64_MAX => query.bytes_used = 10
            /\ query.is_u32 =>
                   /\ SubSeq(query.buf, 1, 5) = query.buf2
                   /\ query.bytes_used = query.bytes_used_2

\* 300 was encoded by both encoders, in two bytes.
EncodingWitness ==
    /\ query.op = "check_enc_dec_unsigned"
    /\ query.val = <<44, 2, 0, 0, 0, 0, 0, 0, 0, 0>>
    /\ query.is_u32
    /\ query.bytes_used_2 = 2

---------------------------------------------------------------------------
(* Signed varints (varint.rs): num_encode_zigzag_i64 / _i32 and their       *)
(* decoders, on integers of ZigZagBits bits.                                *)

\* Width in bits of the signed and unsigned integer type modelled.
ZigZagBits == 8

RECURSIVE Pow2(_)
Pow2(n) == IF n = 0 THEN 1 ELSE 2 * Pow2(n - 1)

SignedMin == 0 - Pow2(ZigZagBits - 1)

SignedMax == Pow2(ZigZagBits - 1) - 1

\* val.abs(): overflows on the minimum; a build with overflow checks panics
\* there, one without returns the minimum itself.
\* val.abs() as uN * 2 + val.is_negative() as uN, wrapping at the width when
\* the build does not check overflow.
num_encode_zigzag(val, overflow_checks) ==
    LET overflow == val = SignedMin
        abs == IF val < 0 THEN 0 - val ELSE val
    IN  IF overflow /\ overflow_checks
        THEN [panic |-> TRUE, zz |-> 0]
        ELSE [panic |-> FALSE,
              zz |-> (abs * 2 + (IF val < 0 THEN 1 ELSE 0)) % Pow2(ZigZagBits)]

\* (val >> 1) as iN * (if val & 1 == 1 { -1 } else { 1 })
num_decode_zigzag(val) ==
    (val \div 2) * (IF val % 2 = 1 THEN 0 - 1 ELSE 1)

InitZigzag ==
    /\ graph = <<>>
    /\ oplog = EmptyOpLog
    /\ other = EmptyOpLog
    /\ tree = NoTree
    /\ cursor = NoCursor
    /\ iter = NoIter
    /\ \E val \in SignedMin..SignedMax : query = [op |-> "val", val |-> val]

\* test::check_zigzag(val), in a build with or without overflow checks
CheckZigzag ==
    /\ query.op = "val"
    /\ \E overflow_checks \in BOOLEAN :
          LET e == num_encode_zigzag(query.val, overflow_checks)
          IN  query' = [op |-> "check_zigzag",
                        val |-> query.val,
                        panic |-> e.panic,
                        zz |-> e.zz,
                        actual |-> IF e.panic THEN 0
                                   ELSE num_decode_zigzag(e.zz)]
    /\ UNCHANGED <<graph, oplog, other, tree, cursor, iter>>

SpecZigzag == InitZigzag /\ [][CheckZigzag]_vars

\* (n << 1) ^ (n >> (bits - 1)) as an unsigned value of the same width.
ZigZag(n) == IF n >= 0 THEN 2 * n ELSE (0 - 2 * n) - 1

\* C15: the signed encoding maps every n to the zig-zag value
\* (n << 1) ^ (n >> (bits - 1)), so -1 to 1, 1 to 2, -2 to 3, and decoding
\* the encoded value returns n for every n of the representable range.
SignedVarintIsZigZag ==
    query.op = "check_zigzag" =>
        /\ ~query.panic
        /\ query.zz = ZigZag(query.val)
        /\ query.actual = query.val

---------------------------------------------------------------------------
(* Order of the span lists returned by diff and diff_rev *)

\* Every span lies entirely below the span before it, with a gap between.
StrictlyDescending(list) ==
    /\ \A i \in 1..Len(list) : list[i].start < list[i].end
    /\ \A i \in 1..(Len(list) - 1) : list[i + 1].end < list[i].start

\* Every span lies entirely above the span before it, with a gap between.
StrictlyAscending(list) ==
    /\ \A i \in 1..Len(list) : list[i].start < list[i].end
    /\ \A i \in 1..(Len(list) - 1) : list[i].end < list[i + 1].start

\* C20 (as stated): diff(A, B) returns each of its two span lists strictly
\* descending by LV, with no two spans overlapping or adjacent.
DiffIsDescending ==
    query.op = "diff" =>
        /\ StrictlyDescending(query.result.a)
        /\ StrictlyDescending(query.result.b)

\* C20 (amended): diff_rev(A, B) returns each of its two span lists strictly
\* descending by LV with no two spans overlapping or adjacent, and diff(A, B)
\* returns the same spans in ascending order.
DiffRevIsDescending ==
    query.op = "diff" =>
        /\ StrictlyDescending(query.result_rev.a)
        /\ StrictlyDescending(query.result_rev.b)
        /\ StrictlyAscending(query.result.a)
        /\ StrictlyAscending(query.result.b)
        /\ query.result.a = Reverse(query.result_rev.a)
        /\ query.result.b = Reverse(query.result_rev.b)

\* A diff whose only-in-B list has two separate spans, as in
\* diff_shadow_bubble.
DiffRevWitness ==
    /\ query.op = "diff"
    /\ Len(query.result_rev.b) >= 2
    /\ Len(query.result_rev.a) >= 1

---------------------------------------------------------------------------
(* RangeRev: splitting and re-joining a reversible span (src/rev_range.rs) *)

\* Bounds of the spans drawn.
MaxSpanStart == 3
MaxSpanLen == 6

\* HasLength for RangeRev
rr_len(s) == s.span.end - s.span.start

\* DTRange::truncate(at): self keeps the first `at` items, the rest is
\* returned.
dtrange_truncate(span, at) ==
    [ self |-> [start |-> span.start, end |-> span.start + at],
      rem  |-> [start |-> span.start + at, end |-> span.end] ]

\* DTRange::truncate_keeping_right(at): self keeps what follows the first
\* `at` items, which are returned.
dtrange_truncate_keeping_right(span, at) ==
    [ self |-> [start |-> span.start + at, end |-> span.end],
      rem  |-> [start |-> span.start, end |-> span.start + at] ]

\* truncate_h that cuts a reversed span as if it ran forward.
truncate_h_always_fwd(s, at) ==
    LET t == dtrange_truncate(s.span, at)
    IN  [ self |-> [span |-> t.self, fwd |-> s.fwd],
          rem  |-> [span |-> t.rem, fwd |-> s.fwd] ]

\* RangeRev::truncate_h(at): self is cut to its first `at` items in document
\* order, the remainder is returned.
truncate_h(s, at) ==
    LET t == IF s.fwd
             THEN dtrange_truncate(s.span, at)
             ELSE dtrange_truncate_keeping_right(s.span, rr_len(s) - at)
    IN  [ self |-> [span |-> t.self, fwd |-> s.fwd],
          rem  |-> [span |-> t.rem, fwd |-> s.fwd] ]

\* SplitableSpanHelpers::split_h(at): (clone truncated at `at`, remainder)
split_h(s, at) ==
    LET t == truncate_h(s, at)
    IN  [l |-> t.self, r |-> t.rem]

\* RangeRev::can_append
rr_can_append(self, rhs) ==
    LET self_len_1 == rr_len(self) = 1
        other_len_1 == rr_len(rhs) = 1
    IN  IF /\ (self_len_1 \/ self.fwd)
           /\ (other_len_1 \/ rhs.fwd)
           /\ rhs.span.start = self.span.end
        THEN TRUE
        ELSE IF /\ (self_len_1 \/ ~self.fwd)
                /\ (other_len_1 \/ ~rhs.fwd)
                /\ rhs.span.end = self.span.start
        THEN TRUE
        ELSE FALSE

\* An append that keeps the direction of self.
rr_append_keeps_fwd(self, rhs) ==
    IF self.fwd
    THEN [span |-> [start |-> self.span.start, end |-> rhs.span.end],
          fwd |-> TRUE]
    ELSE [span |-> [start |-> rhs.span.start, end |-> self.span.end],
          fwd |-> FALSE]

\* RangeRev::append
rr_append(self, rhs) ==
    LET fwd == rhs.span.start >= self.span.start
    IN  IF fwd
        THEN [span |-> [start |-> self.span.start, end |-> rhs.span.end],
              fwd |-> TRUE]
        ELSE [span |-> [start |-> rhs.span.start, end |-> self.span.end],
              fwd |-> FALSE]

\* The spans of length 2..MaxSpanLen and the offsets strictly inside them.
RangeRevs ==
    { [span |-> [start |-> st, end |-> st + n], fwd |-> f] :
        st \in 0..MaxSpanStart, n \in 2..MaxSpanLen, f \in BOOLEAN }

InitRangeRev ==
    /\ graph = <<>>
    /\ \E s \in RangeRevs : \E at \in 1..(rr_len(s) - 1) :
          query = [op |-> "split", s |-> s, at |-> at]
    /\ oplog = EmptyOpLog
    /\ other = EmptyOpLog
    /\ tree = NoTree
    /\ cursor = NoCursor
    /\ iter = NoIter

\* let (l, r) = s.split_h(at); then l.can_append(&r) and l.append(r)
SplitAndAppend ==
    /\ query.op = "split"
    /\ LET p == split_h(query.s, query.at)
       IN  query' = [ op |-> "joined", s |-> query.s, at |-> query.at,
                      l |-> p.l, r |-> p.r,
                      can_append |-> rr_can_append(p.l, p.r),
                      joined |-> rr_append(p.l, p.r) ]
    /\ UNCHANGED <<graph, oplog, other, tree, cursor, iter>>

SpecRangeRev == InitRangeRev /\ [][SplitAndAppend]_vars

\* C18: for every RangeRev s of length >= 2, in either direction, and every
\* k with 0 < k < s.len, splitting s at k into (l, r) gives l.len = k and
\* r.len = s.len - k, l.can_append(r) holds, and appending r to l yields s
\* again, with the same span and the same direction.
SplitAppendRoundTrip ==
    query.op = "joined" =>
        /\ rr_len(query.l) = query.at
        /\ rr_len(query.r) = rr_len(query.s) - query.at
        /\ query.can_append
        /\ query.joined.span = query.s.span
        /\ query.joined.fwd = query.s.fwd

\* A reversed span of length 2 split into two spans of length 1 and joined.
SplitAppendWitness ==
    /\ query.op = "joined"
    /\ ~query.s.fwd
    /\ rr_len(query.s) = 2
    /\ query.can_append

---------------------------------------------------------------------------
(* TakeMaxIter: taking at most n items at a time (crates/rle/src/take_max_iter.rs) *)

\* Bounds of the inputs drawn.
MaxItems == 2
MaxItemLen == 4
MaxTake == 3

\* Option<T>
None == [some |-> FALSE]
Some(v) == [some |-> TRUE, v |-> v]

\* RleRun::truncate(at): self keeps the first `at`, the rest is returned.
rlerun_truncate(r, at) ==
    [ self |-> [val |-> r.val, len |-> at],
      rem  |-> [val |-> r.val, len |-> r.len - at] ]

\* Iterator::next of the wrapped iterator: (item, rest of the iterator)
iter_next(items) ==
    IF items = <<>> THEN [item |-> None, iter |-> items]
    ELSE [item |-> Some(Head(items)), iter |-> Tail(items)]

\* Rem::prime(|| iter.next()) on the pair (iter, remainder)
prime(it) ==
    IF ~it.remainder.some
    THEN LET n == iter_next(it.iter)
         IN  [iter |-> n.iter, remainder |-> n.item]
    ELSE it

\* take_max_opt that hands out the whole chunk and keeps no remainder.
take_max_opt_drop_remainder(it, max_size) ==
    LET taken == IF it.remainder.some
                 THEN [item |-> it.remainder, iter |-> it.iter]
                 ELSE iter_next(it.iter)
    IN  IF ~taken.item.some
        THEN [ret |-> None, chunk |-> None,
              it |-> [iter |-> taken.iter, remainder |-> None]]
        ELSE LET chunk == taken.item.v
             IN  IF chunk.len > max_size
                 THEN [ret |-> Some(rlerun_truncate(chunk, max_size).self),
                       chunk |-> Some(chunk),
                       it |-> [iter |-> taken.iter, remainder |-> None]]
                 ELSE [ret |-> Some(chunk), chunk |-> Some(chunk),
                       it |-> [iter |-> taken.iter, remainder |-> None]]

\* Rem::take_max_opt(max_size, || iter.next()): the remainder if there is
\* one, else the next item; what exceeds max_size becomes the remainder.
take_max_opt(it, max_size) ==
    LET taken == IF it.remainder.some
                 THEN [item |-> it.remainder, iter |-> it.iter]
                 ELSE iter_next(it.iter)
    IN  IF ~taken.item.some
        THEN [ret |-> None, chunk |-> None,
              it |-> [iter |-> taken.iter, remainder |-> None]]
        ELSE LET chunk == taken.item.v
             IN  IF chunk.len > max_size
                 THEN LET t == rlerun_truncate(chunk, max_size)
                      IN  [ret |-> Some(t.self), chunk |-> Some(chunk),
                           it |-> [iter |-> taken.iter,
                                   remainder |-> Some(t.rem)]]
                 ELSE [ret |-> Some(chunk), chunk |-> Some(chunk),
                       it |-> [iter |-> taken.iter, remainder |-> None]]

\* TakeMaxIter::new(iter)
take_max(items) == [iter |-> items, remainder |-> None]

\* The input sequences: at most MaxItems runs of length 1..MaxItemLen.
RleRuns == { [val |-> v, len |-> n] : v \in {5, 15}, n \in 1..MaxItemLen }

RleInputs == UNION { [1..m -> RleRuns] : m \in 0..MaxItems }

InitTakeMax ==
    /\ graph = <<>>
    /\ query = NoQuery
    /\ oplog = EmptyOpLog
    /\ other = EmptyOpLog
    /\ tree = NoTree
    /\ cursor = NoCursor
    /\ \E items \in RleInputs :
          iter = [ op |-> "take_max", input |-> items, it |-> take_max(items),
                   out |-> <<>>, done |-> FALSE, peeked |-> None ]

\* iter.next(max_size); out records each piece with the size asked for and
\* the chunk it was cut from.
IterNext ==
    /\ iter.op = "take_max"
    /\ ~iter.done
    /\ \E max_size \in 1..MaxTake :
          LET r == take_max_opt(iter.it, max_size)
          IN  iter' = [ iter EXCEPT
                          !.it = r.it,
                          !.done = ~r.ret.some,
                          !.out = IF r.ret.some
                                  THEN Append(@, [piece |-> r.ret.v,
                                                  max_size |-> max_size,
                                                  chunk |-> r.chunk.v])
                                  ELSE @ ]
    /\ UNCHANGED <<graph, query, oplog, other, tree, cursor>>

\* iter.peek()
IterPeek ==
    /\ iter.op = "take_max"
    /\ ~iter.done
    /\ LET p == prime(iter.it)
       IN  iter' = [iter EXCEPT !.it = p, !.peeked = p.remainder]
    /\ UNCHANGED <<graph, query, oplog, other, tree, cursor>>

SpecTakeMax == InitTakeMax /\ [][IterNext \/ IterPeek]_vars

\* The units a sequence of runs stands for: each run's value, len times.
RECURSIVE Units(_)
Units(runs) ==
    IF runs = <<>> THEN <<>>
    ELSE [i \in 1..Head(runs).len |-> Head(runs).val] \o Units(Tail(runs))

\* The pieces yielded by successive next calls with the given sizes on an
\* iterator that is never peeked.
RECURSIVE PiecesWithoutPeek(_, _)
PiecesWithoutPeek(it, sizes) ==
    IF sizes = <<>> THEN <<>>
    ELSE LET r == take_max_opt(it, Head(sizes))
         IN  IF r.ret.some
             THEN <<r.ret.v>> \o PiecesWithoutPeek(r.it, Tail(sizes))
             ELSE <<>>

Pieces == [i \in 1..Len(iter.out) |-> iter.out[i].piece]

Pending ==
    (IF iter.it.remainder.some THEN <<iter.it.remainder.v>> ELSE <<>>)
        \o iter.it.iter

\* C19: every piece yielded by next(max) is at most max long, an item no
\* longer than max is yielded unchanged, the pieces yielded so far followed
\* by what is still pending are exactly the input (so the pieces yielded
\* until None are the input, nothing lost, duplicated or reordered), and
\* interleaved peek calls do not change the pieces yielded.
TakeMaxYieldsInput ==
    iter.op = "take_max" =>
        /\ \A i \in 1..Len(iter.out) :
              /\ iter.out[i].piece.len <= iter.out[i].max_size
              /\ iter.out[i].piece.len >= 1
              /\ iter.out[i].chunk.len <= iter.out[i].max_size
                    => iter.out[i].piece = iter.out[i].chunk
        /\ Units(Pieces) \o Units(Pending) = Units(iter.input)
        /\ iter.done => Units(Pieces) = Units(iter.input)
        /\ Pieces = PiecesWithoutPeek(
                        take_max(iter.input),
                        [i \in 1..Len(iter.out) |-> iter.out[i].max_size])

\* The iterator ran to None after a peek, having cut an item into pieces
\* and having yielded another whole.
TakeMaxWitness ==
    /\ iter.op = "take_max"
    /\ iter.done
    /\ iter.peeked.some
    /\ \E i \in 1..Len(iter.out) : iter.out[i].piece.len < iter.out[i].chunk.len
    /\ \E i \in 1..Len(iter.out) : iter.out[i].piece = iter.out[i].chunk
    /\ Len(iter.input) = 2

---------------------------------------------------------------------------
(* marker_tree: moving a cursor entry by entry (src/marker_tree/cursor.rs) *)

\* Bounds of the trees drawn: children per internal node, entries per leaf.
MAX_CHILDREN == 2
MaxEntries == 2

\* Entry lengths drawn: an inserted run of 2 and a deleted run of 1
\* (Entry.len is signed; a negative len is a deleted run).
EntryLens == {2, -1}

\* Entry::get_seq_len / get_content_len
get_seq_len(e) == IF e < 0 THEN -e ELSE e
get_content_len(e) == IF e > 0 THEN e ELSE 0

\* ParentPtr::Root; other parents and the node pointers are indices into
\* the sequence of nodes. No child: Option::None.
RootPtr == 0
NoChild == 0

RECURSIVE leaf_content(_)
leaf_content(data) ==
    IF data = <<>> THEN 0
    ELSE get_content_len(Head(data)) + leaf_content(Tail(data))

RECURSIVE leaves_content(_)
leaves_content(leaves) ==
    IF leaves = <<>> THEN 0
    ELSE leaf_content(Head(leaves)) + leaves_content(Tail(leaves))

\* NodeLeaf with `len` entries in use
NodeLeaf(parent, data) ==
    [kind |-> "leaf", parent |-> parent, data |-> data, len |-> Len(data)]

\* NodeInternal: MAX_CHILDREN pairs (count, child), the unused ones None
NodeInternal(parent, pairs) ==
    [ kind |-> "internal", parent |-> parent,
      data |-> [i \in 1..MAX_CHILDREN |->
                   IF i <= Len(pairs) THEN pairs[i]
                   ELSE [count |-> 0, child |-> NoChild]] ]

\* A tree whose root is a leaf.
Tree1(data) == <<NodeLeaf(RootPtr, data)>>

\* A tree whose root is an internal node over the given leaves.
Tree2(leaves) ==
    <<NodeInternal(RootPtr,
        [i \in 1..Len(leaves) |->
            [count |-> leaf_content(leaves[i]), child |-> 1 + i]])>>
    \o [i \in 1..Len(leaves) |-> NodeLeaf(1, leaves[i])]

RECURSIVE LeavesBefore(_, _)
LeavesBefore(shape, i) ==
    IF i <= 1 THEN 0 ELSE Len(shape[i - 1]) + LeavesBefore(shape, i - 1)

RECURSIVE LeavesOf(_, _)
LeavesOf(shape, i) ==
    IF i > Len(shape) THEN <<>>
    ELSE [j \in 1..Len(shape[i]) |-> NodeLeaf(1 + i, shape[i][j])]
         \o LeavesOf(shape, i + 1)

\* A tree of height 3: shape[i][j] is the data of leaf j of the i-th child
\* of the root.
Tree3(shape) ==
    LET m == Len(shape)
    IN  <<NodeInternal(RootPtr,
            [i \in 1..m |->
                [count |-> leaves_content(shape[i]), child |-> 1 + i]])>>
        \o [i \in 1..m |->
              NodeInternal(1,
                [j \in 1..Len(shape[i]) |->
                    [ count |-> leaf_content(shape[i][j]),
                      child |-> 1 + m + LeavesBefore(shape, i) + j ]])]
        \o LeavesOf(shape, 1)

\* Leaves of 1..MaxEntries entries with lengths drawn from lens.
LeafDatas(lens) == UNION { [1..n -> lens] : n \in 1..MaxEntries }

LeafLists(lens) == UNION { [1..n -> LeafDatas(lens)] : n \in 1..MAX_CHILDREN }

\* The trees of height 1, 2 and 3 over such leaves.
TreesOver(lens) ==
    { Tree1(d) : d \in LeafDatas(lens) }
        \cup { Tree2(l) : l \in LeafLists(lens) }
        \cup { Tree3(s) : s \in UNION { [1..n -> LeafLists(lens)] :
                                          n \in 1..MAX_CHILDREN } }

Trees == TreesOver(EntryLens)

\* NodeInternal::count_children (0-based position of the first None)
count_children(node_ref) ==
    IF \E i \in 1..MAX_CHILDREN : node_ref.data[i].child = NoChild
    THEN (CHOOSE i \in 1..MAX_CHILDREN :
             /\ node_ref.data[i].child = NoChild
             /\ \A j \in 1..(i - 1) : node_ref.data[j].child /= NoChild) - 1
    ELSE MAX_CHILDREN

\* NodeInternal::find_child(child).unwrap() (0-based)
find_child(node_ref, child) ==
    (CHOOSE i \in 1..MAX_CHILDREN : node_ref.data[i].child = child) - 1

\* First loop of traverse: climb until a sibling exists; NoChild stands for
\* the `return false` at the root.
RECURSIVE climb(_, _, _, _)
climb(nodes, node_ptr, parent, traverse_next) ==
    IF parent = RootPtr THEN NoChild
    ELSE LET node_ref == nodes[parent]
             idx == find_child(node_ref, node_ptr)
             has_next ==
                 IF traverse_next
                 THEN (idx + 1 < MAX_CHILDREN)
                         /\ node_ref.data[idx + 2].child /= NoChild
                 ELSE idx > 0
             next_idx == IF traverse_next THEN idx + 1 ELSE idx - 1
         IN  IF has_next
             THEN node_ref.data[next_idx + 1].child
             ELSE climb(nodes, parent, node_ref.parent, traverse_next)

\* Second loop of traverse, down to the leaf: first child when moving
\* forward, last child when moving back.
RECURSIVE descend(_, _, _)
descend(nodes, node_ptr, traverse_next) ==
    LET node_ref == nodes[node_ptr]
    IN  IF node_ref.kind = "internal"
        THEN LET next_idx == IF traverse_next THEN 0
                             ELSE count_children(node_ref) - 1
             IN  descend(nodes, node_ref.data[next_idx + 1].child,
                         traverse_next)
        ELSE node_ptr

\* A landing that takes the first entry of the leaf in both directions.
land_at_first(nodes, n, traverse_next) ==
    [node |-> n, idx |-> 0, offset |-> 0]

\* Landing in leaf n at the end of traverse: the start of its first entry
\* when moving forward, the end of its last entry when moving back.
land(nodes, n, traverse_next) ==
    IF traverse_next
    THEN [node |-> n, idx |-> 0, offset |-> 0]
    ELSE LET idx == nodes[n].len - 1
         IN  [node |-> n, idx |-> idx,
              offset |-> get_seq_len(nodes[n].data[idx + 1])]

\* Cursor::traverse: (returned flag, cursor afterwards)
traverse(nodes, self, traverse_next) ==
    LET up == climb(nodes, self.node, nodes[self.node].parent, traverse_next)
    IN  IF up = NoChild
        THEN [ok |-> FALSE, cursor |-> self]
        ELSE [ok |-> TRUE,
              cursor |-> land(nodes, descend(nodes, up, traverse_next),
                              traverse_next)]

\* Cursor::prev_entry
prev_entry(nodes, self) ==
    IF self.idx > 0
    THEN [ok |-> TRUE,
          cursor |-> [node |-> self.node, idx |-> self.idx - 1,
                      offset |-> get_seq_len(nodes[self.node].data[self.idx])]]
    ELSE traverse(nodes, self, FALSE)

\* Cursor::next_entry
next_entry(nodes, self) ==
    IF self.idx + 1 < nodes[self.node].len
    THEN [ok |-> TRUE,
          cursor |-> [node |-> self.node, idx |-> self.idx + 1, offset |-> 0]]
    ELSE traverse(nodes, self, TRUE)

RECURSIVE content_before(_, _)
content_before(data, n) ==
    IF n = 0 THEN 0
    ELSE get_content_len(data[n]) + content_before(data, n - 1)

RECURSIVE counts_before(_, _)
counts_before(data, n) ==
    IF n = 0 THEN 0 ELSE data[n].count + counts_before(data, n - 1)

\* Loop of get_pos: add the counts of the earlier siblings up to the root.
RECURSIVE pos_above(_, _, _)
pos_above(nodes, node_ptr, parent) ==
    IF parent = RootPtr THEN 0
    ELSE LET node_ref == nodes[parent]
             idx == find_child(node_ref, node_ptr)
         IN  counts_before(node_ref.data, idx)
                + pos_above(nodes, parent, node_ref.parent)

\* Cursor::get_pos
get_pos(nodes, self) ==
    LET node == nodes[self.node]
        local_len == node.data[self.idx + 1]
    IN  content_before(node.data, self.idx)
          + (IF local_len > 0 THEN self.offset ELSE 0)
          + pos_above(nodes, self.node, node.parent)

\* Cursor::new(node, idx, offset) on every entry of every leaf, at every
\* offset from its start to its end.
Cursors(nodes) ==
    UNION { UNION { { [node |-> n, idx |-> i - 1, offset |-> o] :
                        o \in 0..get_seq_len(nodes[n].data[i]) } :
                    i \in 1..nodes[n].len } :
            n \in { x \in 1..Len(nodes) : nodes[x].kind = "leaf" } }

InitCursor ==
    /\ graph = <<>>
    /\ query = NoQuery
    /\ oplog = EmptyOpLog
    /\ other = EmptyOpLog
    /\ tree = NoTree
    /\ iter = NoIter
    /\ \E nodes \in Trees : \E c \in Cursors(nodes) :
          cursor = [ op |-> "cursor", nodes |-> nodes, at |-> c,
                     start |-> c, backs |-> 0, nexts |-> 0,
                     forward |-> FALSE, moved |-> TRUE, same |-> TRUE ]

\* cursor.prev_entry(), before any next_entry; backs counts the calls that
\* returned true.
PrevEntry ==
    /\ cursor.op = "cursor"
    /\ ~cursor.forward
    /\ LET r == prev_entry(cursor.nodes, cursor.at)
       IN  cursor' = [ cursor EXCEPT
                         !.at = r.cursor,
                         !.backs = IF r.ok THEN @ + 1 ELSE @,
                         !.moved = r.ok,
                         !.same = (r.cursor = cursor.at) ]
    /\ UNCHANGED <<graph, query, oplog, other, tree, iter>>

\* cursor.next_entry(); nexts counts the calls that returned true.
NextEntry ==
    /\ cursor.op = "cursor"
    /\ cursor.nexts <= cursor.backs
    /\ LET r == next_entry(cursor.nodes, cursor.at)
       IN  cursor' = [ cursor EXCEPT
                         !.at = r.cursor,
                         !.forward = TRUE,
                         !.nexts = IF r.ok THEN @ + 1 ELSE @,
                         !.moved = r.ok,
                         !.same = (r.cursor = cursor.at) ]
    /\ UNCHANGED <<graph, query, oplog, other, tree, iter>>

SpecCursor == InitCursor /\ [][PrevEntry \/ NextEntry]_vars

\* C17 (as stated): after k prev_entry calls that returned true and then k
\* next_entry calls, the cursor is on the entry it started on and reports
\* the position it started at, for every starting cursor; and a move that
\* returns false leaves the cursor unchanged.
CursorRoundTrip ==
    cursor.op = "cursor" =>
        /\ (cursor.nexts = cursor.backs) =>
              /\ cursor.at.node = cursor.start.node
              /\ cursor.at.idx = cursor.start.idx
              /\ get_pos(cursor.nodes, cursor.at)
                    = get_pos(cursor.nodes, cursor.start)
        /\ ~cursor.moved => cursor.same

\* C17 (amended): after k >= 1 prev_entry calls that returned true and then
\* k next_entry calls, the cursor is at the start of the entry it started
\* on: same leaf, same entry, offset 0. It reports the starting position
\* exactly when the starting offset was 0 or the entry is a deleted run;
\* otherwise it reports the starting position less the starting offset. A
\* move that returns false leaves the cursor unchanged.
CursorRoundTripToEntryStart ==
    cursor.op = "cursor" =>
        /\ (cursor.nexts = cursor.backs /\ cursor.backs >= 1) =>
              /\ cursor.at = [cursor.start EXCEPT !.offset = 0]
              /\ get_pos(cursor.nodes, cursor.at)
                    = get_pos(cursor.nodes, [cursor.start EXCEPT !.offset = 0])
              /\ LET e == cursor.nodes[cursor.start.node].data[cursor.start.idx + 1]
                 IN  get_pos(cursor.nodes, cursor.at)
                       = get_pos(cursor.nodes, cursor.start)
                           - (IF e > 0 THEN cursor.start.offset ELSE 0)
        /\ (cursor.nexts < cursor.backs /\ cursor.forward) => cursor.moved
        /\ ~cursor.moved => cursor.same

\* A cursor that started inside an entry, went back over a leaf boundary
\* and came forward again over it.
CursorRoundTripWitness ==
    /\ cursor.op = "cursor"
    /\ cursor.backs >= 2
    /\ cursor.nexts = cursor.backs
    /\ cursor.start.offset > 0
    /\ cursor.start.idx = 0
    /\ cursor.nodes[cursor.start.node].parent /= RootPtr
    /\ find_child(cursor.nodes[cursor.nodes[cursor.start.node].parent],
                  cursor.start.node) = 0
    /\ cursor.nodes[cursor.start.node].parent /= 1

---------------------------------------------------------------------------
(* content-tree: flushing a leaf's metric delta to its ancestors       *)
(* (crates/content-tree/src/leaf.rs)                                    *)

\* Bounds: edits made to one tree, and the largest entry length.
MaxEdits == 2
MaxEntryLen == 2

\* A content-tree node from the drawn shape: an internal node holds its
\* children and one cached metric per child, a leaf its entries (here the
\* metric of an entry is its length).
ct_node(n) ==
    IF n.kind = "leaf"
    THEN [ kind |-> "leaf", parent |-> n.parent, data |-> n.data,
           num_entries |-> n.len ]
    ELSE LET k == count_children(n)
         IN  [ kind |-> "internal", parent |-> n.parent,
               children |-> [i \in 1..k |-> n.data[i].child],
               metrics |-> [i \in 1..k |-> n.data[i].count] ]

\* The trees at construction: every entry has length 1, every cached metric
\* is the content below it and the root count is the content of the tree.
ContentTrees ==
    { [ nodes |-> [i \in 1..Len(t) |-> ct_node(t[i])],
        count |-> IF t[1].kind = "leaf" THEN leaf_content(t[1].data)
                  ELSE counts_before(t[1].data, MAX_CHILDREN) ] :
      t \in TreesOver({1}) }

\* I::update_offset_by_marker(offset, by): offset.wrapping_add(by)
update_offset_by_marker(offset, by) == offset + by

\* NodeInternal::find_child(child).unwrap(), as an index into metrics
ct_find_child(node, child) ==
    CHOOSE i \in 1..Len(node.children) : node.children[i] = child

\* An ascent that updates the parent only and goes no further.
ascend_one_level(t, child, parent, amt) ==
    IF parent = RootPtr
    THEN [t EXCEPT !.count = update_offset_by_marker(@, amt)]
    ELSE LET idx == ct_find_child(t.nodes[parent], child)
         IN  [t EXCEPT !.nodes[parent].metrics[idx] =
                           update_offset_by_marker(@, amt)]

\* The loop of update_parent_count: update the cached metric of `child` in
\* each ancestor, then the root's count.
RECURSIVE ascend(_, _, _, _)
ascend(t, child, parent, amt) ==
    IF parent = RootPtr
    THEN [t EXCEPT !.count = update_offset_by_marker(@, amt)]
    ELSE LET idx == ct_find_child(t.nodes[parent], child)
             u == [t EXCEPT !.nodes[parent].metrics[idx] =
                               update_offset_by_marker(@, amt)]
         IN  ascend(u, parent, t.nodes[parent].parent, amt)

\* NodeLeaf::update_parent_count(amt)
update_parent_count(t, leaf, amt) ==
    IF amt = 0 THEN t
    ELSE ascend(t, leaf, t.nodes[leaf].parent, amt)

\* NodeLeaf::flush_metric_update(marker): (tree, marker afterwards)
flush_metric_update(t, leaf, marker) ==
    LET amt == marker
    IN  [t |-> update_parent_count(t, leaf, amt), marker |-> 0]

RECURSIVE sum_entries(_, _)
sum_entries(data, n) ==
    IF n = 0 THEN 0 ELSE data[n] + sum_entries(data, n - 1)

\* NodeLeaf::count_items
count_items(t, leaf, CAN_COUNT_ITEMS) ==
    LET self == t.nodes[leaf]
    IN  IF CAN_COUNT_ITEMS
        THEN IF self.parent = RootPtr THEN t.count
             ELSE LET node == t.nodes[self.parent]
                  IN  node.metrics[ct_find_child(node, leaf)]
        ELSE sum_entries(self.data, self.num_entries)

ct_leaves(t) == { x \in 1..Len(t.nodes) : t.nodes[x].kind = "leaf" }

\* No flush has happened yet.
NoFlush == [op |-> "none"]

InitLeaf ==
    /\ graph = <<>>
    /\ query = NoQuery
    /\ oplog = EmptyOpLog
    /\ other = EmptyOpLog
    /\ cursor = NoCursor
    /\ iter = NoIter
    /\ \E t \in ContentTrees :
          tree = [ op |-> "tree", t |-> t, marker |-> 0, marker_leaf |-> 0,
                   edits |-> 0, last |-> NoFlush ]

\* An entry of a leaf grows or shrinks by d and the leaf records the delta
\* in the marker it will flush.
EditLeaf ==
    /\ tree.op = "tree"
    /\ tree.edits < MaxEdits
    /\ \E leaf \in ct_leaves(tree.t), d \in {-1, 1} :
       \E i \in 1..tree.t.nodes[leaf].num_entries :
          /\ tree.marker_leaf \in {0, leaf}
          /\ tree.t.nodes[leaf].data[i] + d \in 0..MaxEntryLen
          /\ tree' = [ tree EXCEPT
                         !.t.nodes[leaf].data[i] = @ + d,
                         !.marker = @ + d,
                         !.marker_leaf = leaf,
                         !.edits = @ + 1,
                         !.last = NoFlush ]
    /\ UNCHANGED <<graph, query, oplog, other, cursor, iter>>

\* leaf.flush_metric_update(&mut marker)
FlushMetricUpdate ==
    /\ tree.op = "tree"
    /\ tree.marker_leaf /= 0
    /\ LET r == flush_metric_update(tree.t, tree.marker_leaf, tree.marker)
       IN  tree' = [ tree EXCEPT
                       !.t = r.t,
                       !.marker = r.marker,
                       !.marker_leaf = 0,
                       !.last = [ op |-> "flush", leaf |-> tree.marker_leaf,
                                  amt |-> tree.marker, before |-> tree.t ] ]
    /\ UNCHANGED <<graph, query, oplog, other, cursor, iter>>

\* An entry of a leaf changes by d (possibly 0) and the leaf calls
\* update_parent_count(d) at once.
UpdateParentCount ==
    /\ tree.op = "tree"
    /\ tree.edits < MaxEdits
    /\ tree.marker_leaf = 0
    /\ \E leaf \in ct_leaves(tree.t), d \in {-1, 0, 1} :
       \E i \in 1..tree.t.nodes[leaf].num_entries :
          /\ tree.t.nodes[leaf].data[i] + d \in 0..MaxEntryLen
          /\ LET edited == [tree.t EXCEPT !.nodes[leaf].data[i] = @ + d]
             IN  tree' = [ tree EXCEPT
                             !.t = update_parent_count(edited, leaf, d),
                             !.edits = @ + 1,
                             !.last = [ op |-> "flush", leaf |-> leaf,
                                        amt |-> d, before |-> edited ] ]
    /\ UNCHANGED <<graph, query, oplog, other, cursor, iter>>

SpecLeaf == InitLeaf /\ [][EditLeaf \/ FlushMetricUpdate \/ UpdateParentCount]_vars

\* The metric summed over the subtree of node x.
RECURSIVE SubtreeSum(_, _)
SubtreeSum(t, x) ==
    LET RECURSIVE over(_)
        over(n) == IF n = 0 THEN 0
                   ELSE SubtreeSum(t, t.nodes[x].children[n]) + over(n - 1)
    IN  IF t.nodes[x].kind = "leaf"
        THEN sum_entries(t.nodes[x].data, t.nodes[x].num_entries)
        ELSE over(Len(t.nodes[x].children))

\* x is the leaf or one of its ancestors.
RECURSIVE OnPathToRoot(_, _, _)
OnPathToRoot(t, leaf, x) ==
    \/ x = leaf
    \/ /\ t.nodes[leaf].parent /= RootPtr
       /\ OnPathToRoot(t, t.nodes[leaf].parent, x)

Internals(t) == { x \in 1..Len(t.nodes) : t.nodes[x].kind = "internal" }

\* Every cached metric is the sum over the child's subtree, less `pending`
\* for the children above the leaf that has not flushed yet.
CachesAreSums(t, leaf, pending) ==
    /\ \A x \in Internals(t) : \A i \in 1..Len(t.nodes[x].children) :
          t.nodes[x].metrics[i]
             + (IF leaf /= 0 /\ OnPathToRoot(t, leaf, t.nodes[x].children[i])
                THEN pending ELSE 0)
             = SubtreeSum(t, t.nodes[x].children[i])
    /\ t.count + (IF leaf /= 0 THEN pending ELSE 0) = SubtreeSum(t, 1)

\* C16: starting from cached metrics equal to the subtree sums and a root
\* total equal to the sum over all entries, after a leaf's content changes
\* by d and the leaf calls update_parent_count(d) or flush_metric_update
\* with marker d, the same holds again; the cached entry of each ancestor
\* level on the path from the leaf and the root total are adjusted by d,
\* every other cached entry is unchanged, a zero delta changes nothing, and
\* the flushed marker is zero. count_items read from the cache is then the
\* sum over the leaf's own entries.
FlushKeepsCachesAsSums ==
    tree.op = "tree" =>
        /\ CachesAreSums(tree.t, tree.marker_leaf, tree.marker)
        /\ tree.marker_leaf = 0 =>
              /\ tree.marker = 0
              /\ \A leaf \in ct_leaves(tree.t) :
                    count_items(tree.t, leaf, TRUE)
                       = count_items(tree.t, leaf, FALSE)
        /\ tree.last.op = "flush" =>
              LET b == tree.last.before
                  a == tree.t
              IN  /\ \A x \in Internals(a) : \A i \in 1..Len(a.nodes[x].children) :
                        a.nodes[x].metrics[i]
                           = b.nodes[x].metrics[i]
                               + (IF OnPathToRoot(a, tree.last.leaf,
                                                  a.nodes[x].children[i])
                                  THEN tree.last.amt ELSE 0)
                  /\ a.count = b.count + tree.last.amt
                  /\ tree.last.amt = 0 => a = b
                  /\ \A x \in 1..Len(a.nodes) :
                        /\ a.nodes[x].parent = b.nodes[x].parent
                        /\ a.nodes[x].kind = "leaf" => a.nodes[x] = b.nodes[x]

\* A leaf two levels below the root flushed a non-zero delta gathered over
\* two edits, next to a sibling whose cached metric stayed.
FlushWitness ==
    /\ tree.op = "tree"
    /\ tree.last.op = "flush"
    /\ tree.last.amt = 2
    /\ tree.marker_leaf = 0
    /\ tree.t.nodes[tree.last.leaf].parent \notin {RootPtr, 1}
    /\ Len(tree.t.nodes[tree.t.nodes[tree.last.leaf].parent].children) = 2

---------------------------------------------------------------------------
(* Shadow of the entries without parents *)

\* C21 (as stated): every entry whose parents frontier is empty has
\* shadow = 0, whatever its span start is.
RootEntryShadowIsZero ==
    \A i \in 1..Len(graph) : graph[i].parents = <<>> => graph[i].shadow = 0

\* C21 (amended): every entry whose parents frontier is empty has
\* shadow = its span start, which is 0 only for an entry that starts at 0
\* (fancy_graph: the root entry 3..6 has shadow 3).
RootEntryShadowIsStart ==
    \A i \in 1..Len(graph) :
        graph[i].parents = <<>> => graph[i].shadow = graph[i].start

\* A second root entry, starting after LV 0, as entry 3..6 of fancy_graph.
RootEntryWitness ==
    \E i \in 1..Len(graph) : graph[i].parents = <<>> /\ graph[i].start > 0

---------------------------------------------------------------------------
(* diff_rev against diff_slow *)

\* C22: for every graph and every pair of version lists a and b, diff_rev
\* with its shortcuts (a = b, and two single versions in one entry) returns
\* the same pair of span lists as the heap-based diff_slow.
DiffRevMatchesSlow ==
    query.op = "diff" => query.result_rev = query.result_slow

\* The same-entry shortcut fired: two different single versions of one
\* entry lying above an earlier entry, so the slow walk has a heap to drain.
DiffShortcutWitness ==
    /\ query.op = "diff"
    /\ Len(query.a) = 1 /\ Len(query.b) = 1
    /\ query.a[1] /= query.b[1]
    /\ is_direct_descendant_coarse(graph, query.b[1], query.a[1])
    /\ find_packed(graph, query.a[1]).start > 0
    /\ query.result_slow.b /= <<>>

---------------------------------------------------------------------------
(* find_conflicting against find_conflicting_slow and diff_slow *)

\* test::push_rev_rle: a range that ends where the last one starts, with
\* the same flag, is merged into it.
push_rev_rle(list, span) ==
    LET n == Len(list)
    IN  IF n > 0 /\ span.end = list[n].start /\ span.flag = list[n].flag
        THEN [list EXCEPT ![n].start = span.start]
        ELSE Append(list, span)

RECURSIVE MergedVisits(_, _)
MergedVisits(visited, acc) ==
    IF visited = <<>> THEN acc
    ELSE MergedVisits(Tail(visited), push_rev_rle(acc, Head(visited)))

\* test::diff_via_conflicting: the visited ranges with the given flag,
\* collected with push_reversed_rle.
RECURSIVE VisitsWithFlag(_, _, _)
VisitsWithFlag(visited, flag, acc) ==
    IF visited = <<>> THEN acc
    ELSE VisitsWithFlag(
             Tail(visited), flag,
             IF Head(visited).flag = flag
             THEN push_reversed_rle(acc, [start |-> Head(visited).start,
                                          end |-> Head(visited).end])
             ELSE acc)

\* C23: find_conflicting with its fast paths returns the same
\* common-ancestor frontier and visits the same flagged ranges (adjacent
\* ranges of one flag merged) as find_conflicting_slow, and the OnlyA and
\* OnlyB ranges it visits are the two lists of diff_slow.
FindConflictingMatchesSlow ==
    query.op = "find_conflicting" =>
        /\ query.result.frontier = query.result_slow.frontier
        /\ MergedVisits(query.result.visited, <<>>)
              = MergedVisits(query.result_slow.visited, <<>>)
        /\ query.result.ok = query.result_slow.ok
        /\ VisitsWithFlag(query.result.visited, OnlyA, <<>>) = query.diff_slow.a
        /\ VisitsWithFlag(query.result.visited, OnlyB, <<>>) = query.diff_slow.b

\* The same-entry fast path fired for two different versions and visited
\* its single OnlyA range.
FindConflictingFastWitness ==
    /\ query.op = "find_conflicting"
    /\ Len(query.a) = 1 /\ Len(query.b) = 1
    /\ query.a /= query.b
    /\ is_direct_descendant_coarse(graph, query.a[1], query.b[1])
    /\ Len(query.result.visited) = 1
    /\ query.diff_slow.a /= <<>>

---------------------------------------------------------------------------
(* find_dominators_2 *)

\* find_dominators_2 that keeps v_1 when v_1 is an ancestor of v_2.
find_dominators_2_keeps_first(entries, v_1, v_2) ==
    IF v_1 = <<>> THEN v_2
    ELSE IF v_2 = <<>> THEN v_1
    ELSE IF Len(v_1) = 1 /\ Len(v_2) = 1
    THEN LET a == v_1[1]
             b == v_2[1]
             c == version_cmp(entries, a, b)
         IN  IF c = "None" THEN (IF a < b THEN <<a, b>> ELSE <<b, a>>)
             ELSE <<a>>
    ELSE LET first_v == Min({v_1[1], v_2[1]})
         IN  Reverse(dom_only(
                 find_dominators_full_internal(entries, v_1 \o v_2, first_v)))

\* Graph::find_dominators_2(v_1, v_2)
find_dominators_2(entries, v_1, v_2) ==
    IF v_1 = <<>> THEN v_2
    ELSE IF v_2 = <<>> THEN v_1
    ELSE IF Len(v_1) = 1 /\ Len(v_2) = 1
    THEN LET a == v_1[1]
             b == v_2[1]
             c == version_cmp(entries, a, b)
         IN  IF c = "None" THEN (IF a < b THEN <<a, b>> ELSE <<b, a>>)
             ELSE IF c \in {"Equal", "Less"} THEN <<b>>
             ELSE <<a>>
    ELSE LET first_v == Min({v_1[1], v_2[1]})
         IN  Reverse(dom_only(
                 find_dominators_full_internal(entries, v_1 \o v_2, first_v)))

\* find_dominators_2 on two frontiers, both ways round, beside
\* find_dominators of their sorted union (test::check_dominators).
Dominators2Query ==
    /\ query = NoQuery
    /\ \E a \in SmallFrontiers(graph, MaxVersions),
          b \in SmallFrontiers(graph, MaxVersions) :
          query' = [ op |-> "find_dominators_2", a |-> a, b |-> b,
                     result |-> find_dominators_2(graph, a, b),
                     swapped |-> find_dominators_2(graph, b, a),
                     of_union |-> find_dominators(
                         graph, SortedSeq(Range(a) \cup Range(b))) ]
    /\ UNCHANGED <<graph, oplog, other, tree, cursor, iter>>

SpecDominators2 == Init /\ [][GraphPush \/ Dominators2Query]_vars

\* C24: for sorted, dominator-minimal a and b, find_dominators_2(a, b) is
\* find_dominators of the sorted union of a and b, and equals
\* find_dominators_2(b, a); empty inputs, equal, ancestor-related and
\* concurrent single versions included.
Dominators2MatchesUnion ==
    query.op = "find_dominators_2" =>
        /\ query.result = query.of_union
        /\ query.result = query.swapped

\* A two-version frontier against a frontier sharing one of its versions
\* and bringing a descendant of the other: the heap walk runs on a
\* repeated input.
Dominators2Witness ==
    /\ query.op = "find_dominators_2"
    /\ Len(query.a) = 2
    /\ Range(query.a) \cap Range(query.b) /= {}
    /\ query.a /= query.b
    /\ Len(query.result) = 2

---------------------------------------------------------------------------
(* marker_tree: looking a position up from the root                     *)
(* (src/marker_tree/internal.rs, crates/content-tree/src/leaf.rs)       *)

\* get_child that never sticks to the end of a child.
RECURSIVE get_child_never_sticks(_, _, _, _)
get_child_never_sticks(node, offset_remaining, stick_end, i) ==
    IF i > MAX_CHILDREN THEN None
    ELSE IF node.data[i].child = NoChild THEN None
    ELSE IF offset_remaining < node.data[i].count
    THEN Some([offset |-> offset_remaining, child |-> node.data[i].child])
    ELSE get_child_never_sticks(node, offset_remaining - node.data[i].count,
                                stick_end, i + 1)

\* The loop of NodeInternal::get_child from the i-th pair on.
RECURSIVE get_child_from(_, _, _, _)
get_child_from(node, offset_remaining, stick_end, i) ==
    IF i > MAX_CHILDREN THEN None
    ELSE IF node.data[i].child = NoChild THEN None
    ELSE IF \/ offset_remaining < node.data[i].count
            \/ (stick_end /\ offset_remaining = node.data[i].count)
    THEN Some([offset |-> offset_remaining, child |-> node.data[i].child])
    ELSE get_child_from(node, offset_remaining - node.data[i].count,
                        stick_end, i + 1)

\* NodeInternal::get_child(raw_pos, stick_end)
get_child(node, raw_pos, stick_end) ==
    get_child_from(node, raw_pos, stick_end, 1)

\* The loop of NodeLeaf::find_offset from entry i (0-based) on, with
\* entry_to_num = get_content_len.
RECURSIVE find_offset_from(_, _, _, _)
find_offset_from(leaf, offset, stick_end, i) ==
    IF i >= leaf.len
    THEN (IF offset = 0 THEN Some([idx |-> leaf.len, offset |-> 0]) ELSE None)
    ELSE LET entry_len == get_content_len(leaf.data[i + 1])
         IN  IF offset < entry_len \/ (stick_end /\ entry_len = offset)
             THEN Some([idx |-> i, offset |-> offset])
             ELSE find_offset_from(leaf, offset - entry_len, stick_end, i + 1)

\* NodeLeaf::find_offset(offset, stick_end, entry_to_num)
find_offset(leaf, offset, stick_end) ==
    find_offset_from(leaf, offset, stick_end, 0)

\* The descent from node_ptr: get_child at every internal node, find_offset
\* in the leaf; the cursor found, or None.
RECURSIVE cursor_at_pos_from(_, _, _, _)
cursor_at_pos_from(nodes, node_ptr, pos, stick_end) ==
    IF nodes[node_ptr].kind = "internal"
    THEN LET c == get_child(nodes[node_ptr], pos, stick_end)
         IN  IF c.some
             THEN cursor_at_pos_from(nodes, c.v.child, c.v.offset, stick_end)
             ELSE None
    ELSE LET f == find_offset(nodes[node_ptr], pos, stick_end)
         IN  IF f.some
             THEN Some([node |-> node_ptr, idx |-> f.v.idx, offset |-> f.v.offset])
             ELSE None

\* The cursor at content position pos, looked up from the root (node 1).
cursor_at_pos(nodes, pos, stick_end) ==
    cursor_at_pos_from(nodes, 1, pos, stick_end)

\* The content total of the tree, as its root caches it.
root_total(nodes) ==
    IF nodes[1].kind = "leaf" THEN leaf_content(nodes[1].data)
    ELSE counts_before(nodes[1].data, MAX_CHILDREN)

InitLookup ==
    /\ graph = <<>>
    /\ query = NoQuery
    /\ oplog = EmptyOpLog
    /\ other = EmptyOpLog
    /\ tree = NoTree
    /\ iter = NoIter
    /\ \E nodes \in Trees, stick_end \in BOOLEAN :
       \E pos \in 0..(root_total(nodes) + 1) :
          cursor = [ op |-> "lookup", nodes |-> nodes, pos |-> pos,
                     stick_end |-> stick_end ]

\* The lookup of pos from the root, and get_pos of the cursor it finds.
CursorAtPos ==
    /\ cursor.op = "lookup"
    /\ LET c == cursor_at_pos(cursor.nodes, cursor.pos, cursor.stick_end)
           in_leaf == c.some /\ c.v.idx < cursor.nodes[c.v.node].len
       IN  cursor' = [ op |-> "found", nodes |-> cursor.nodes,
                       pos |-> cursor.pos, stick_end |-> cursor.stick_end,
                       at |-> c, in_leaf |-> in_leaf,
                       get_pos |-> IF in_leaf THEN get_pos(cursor.nodes, c.v)
                                   ELSE -1 ]
    /\ UNCHANGED <<graph, query, oplog, other, tree, iter>>

\* node.get_child(pos, stick_end) on one internal node of the tree.
GetChild ==
    /\ cursor.op = "lookup"
    /\ \E n \in { x \in 1..Len(cursor.nodes) : cursor.nodes[x].kind = "internal" } :
          cursor' = [ op |-> "get_child", nodes |-> cursor.nodes,
                      pos |-> cursor.pos, stick_end |-> cursor.stick_end,
                      node |-> n,
                      child |-> get_child(cursor.nodes[n], cursor.pos,
                                          cursor.stick_end) ]
    /\ UNCHANGED <<graph, query, oplog, other, tree, iter>>

SpecLookup == InitLookup /\ [][CursorAtPos \/ GetChild]_vars

\* C25: in a tree whose cached counts are the content totals of the
\* subtrees, for every position p below the root total the descent by
\* get_child and find_offset finds a cursor on an entry of a leaf whose
\* get_pos() is p; get_child returns the first child i with
\* sum(counts[0..i]) <= p < sum(counts[0..=i]) (<= with stick_end) and the
\* offset p - sum(counts[0..i]), and returns None exactly when p lies beyond
\* the node's total (from the total on without stick_end).
LookupFindsPosition ==
    /\ cursor.op = "found" =>
          /\ cursor.pos < root_total(cursor.nodes) =>
                /\ cursor.at.some
                /\ cursor.in_leaf
                /\ cursor.get_pos = cursor.pos
          /\ (cursor.at.some /\ cursor.in_leaf) => cursor.get_pos = cursor.pos
    /\ cursor.op = "get_child" =>
          LET node == cursor.nodes[cursor.node]
              total == counts_before(node.data, MAX_CHILDREN)
              p == cursor.pos
          IN  /\ cursor.child.some <=>
                    (p < total \/ (cursor.stick_end /\ p = total))
              /\ cursor.child.some =>
                    \E i \in 1..count_children(node) :
                       LET lo == counts_before(node.data, i - 1)
                           hi == counts_before(node.data, i)
                       IN  /\ cursor.child.v.child = node.data[i].child
                           /\ cursor.child.v.offset = p - lo
                           /\ lo <= p
                           /\ p < hi \/ (cursor.stick_end /\ p = hi)
                           /\ \A j \in 1..(i - 1) :
                                 ~(p < counts_before(node.data, j)
                                   \/ (cursor.stick_end
                                       /\ p = counts_before(node.data, j)))

\* A position inside the second entry of a leaf two levels below the root,
\* reached past a sibling subtree.
LookupWitness ==
    /\ cursor.op = "found"
    /\ cursor.at.some
    /\ cursor.in_leaf
    /\ cursor.at.v.idx = 1
    /\ cursor.at.v.offset = 1
    /\ cursor.nodes[cursor.at.v.node].parent \notin {RootPtr, 1, 2}
    /\ cursor.pos < root_total(cursor.nodes)

---------------------------------------------------------------------------
(* decode_u32 on the bytes of encode_u32 *)

\* decode_u32(buf): decode_u64, then assert!(val < u32::MAX) and, in a build
\* with debug assertions, debug_assert!(bytes_consumed <= 5).
decode_u32(buf, debug_assertions) ==
    LET d == decode_u64(buf)
    IN  IF d.err /= "none" THEN d
        ELSE IF ~u64_lt(d.value, U32_MAX) THEN Panic("varint is not a u32")
        ELSE IF debug_assertions /\ ~(d.used <= 5)
        THEN Panic("bytes_consumed <= 5")
        ELSE [err |-> "none", value |-> as_u32(d.value), used |-> d.used]

\* val fits a u32: val <= u32::MAX.
is_u32(val) == u64_lt(val, U32_MAX) \/ val = U32_MAX

\* encode_u32(n, buf) into a five-byte buffer, then decode_u32(buf).
CheckEncDecU32 ==
    /\ query.op = "val"
    /\ is_u32(query.val)
    /\ \E debug_assertions \in BOOLEAN :
          LET n == as_u32(query.val)
              e == encode_u32(n, Zeros(5))
          IN  query' = [ op |-> "check_enc_dec_u32", val |-> query.val,
                         n |-> n, buf |-> e.buf, bytes_used |-> e.used,
                         debug_assertions |-> debug_assertions,
                         decoded |-> decode_u32(e.buf, debug_assertions) ]
    /\ UNCHANGED <<graph, oplog, other, tree, cursor, iter>>

SpecVarint32 == InitVarint /\ [][CheckEncDecU32 \/ DecodeBuffer]_vars

\* C26: for every u32 n in [0, 2^32 - 1], decode_u32 on the bytes written
\* by encode_u32(n) returns (n, k), k <= 5 being the byte count encode_u32
\* reported, and its range assertion does not fail.
U32RoundTrip ==
    query.op = "check_enc_dec_u32" =>
        /\ query.bytes_used <= 5
        /\ query.decoded.err = "none"
        /\ query.decoded.value = query.n
        /\ query.decoded.used = query.bytes_used

---------------------------------------------------------------------------
(* RangeRev: the LVs a span denotes, in iteration order *)

\* RangeRev::lv_at_offset
lv_at_offset(self, offset) ==
    IF self.fwd THEN self.span.start + offset
    ELSE self.span.end - offset - 1

\* RangeRev::range(offset_start, offset_end)
rr_range(self, offset_start, offset_end) ==
    IF self.fwd
    THEN [start |-> self.span.start + offset_start,
          end |-> self.span.start + offset_end]
    ELSE [start |-> self.span.end - offset_end,
          end |-> self.span.end - offset_start]

\* The LVs of a span in iteration order: lv_at_offset(0), lv_at_offset(1), ...
lvs_of(self) == [i \in 1..rr_len(self) |-> lv_at_offset(self, i - 1)]

\* Non-empty spans of length up to MaxSpanLen, in both directions.
AllRangeRevs ==
    { [span |-> [start |-> st, end |-> st + n], fwd |-> f] :
        st \in 0..MaxSpanStart, n \in 1..MaxSpanLen, f \in BOOLEAN }

InitRangeRevLvs ==
    /\ graph = <<>>
    /\ oplog = EmptyOpLog
    /\ other = EmptyOpLog
    /\ tree = NoTree
    /\ cursor = NoCursor
    /\ iter = NoIter
    /\ \/ \E s \in RangeRevs : \E at \in 1..(rr_len(s) - 1) :
             query = [op |-> "split", s |-> s, at |-> at]
       \/ \E a, b \in AllRangeRevs : query = [op |-> "pair", a |-> a, b |-> b]
       \/ \E s \in AllRangeRevs :
             \E i \in 0..rr_len(s) : \E j \in i..rr_len(s) :
                query = [op |-> "sub", s |-> s, i |-> i, j |-> j]

\* let (a, b) = s.split_h(at), and the LVs of s, a and b
SplitLvs ==
    /\ query.op = "split"
    /\ LET p == split_h(query.s, query.at)
       IN  query' = [ op |-> "split_lvs", s |-> query.s, at |-> query.at,
                      a |-> p.l, b |-> p.r, s_lvs |-> lvs_of(query.s),
                      a_lvs |-> lvs_of(p.l), b_lvs |-> lvs_of(p.r) ]
    /\ UNCHANGED <<graph, oplog, other, tree, cursor, iter>>

\* if a.can_append(&b) { a.append(b) }, and the LVs before and after
AppendLvs ==
    /\ query.op = "pair"
    /\ LET can == rr_can_append(query.a, query.b)
           joined == IF can THEN rr_append(query.a, query.b) ELSE query.a
       IN  query' = [ op |-> "append_lvs", a |-> query.a, b |-> query.b,
                      can_append |-> can, joined |-> joined,
                      a_lvs |-> lvs_of(query.a), b_lvs |-> lvs_of(query.b),
                      joined_lvs |-> lvs_of(joined) ]
    /\ UNCHANGED <<graph, oplog, other, tree, cursor, iter>>

\* s.range(i, j), and the LVs of s
RangeLvs ==
    /\ query.op = "sub"
    /\ query' = [ op |-> "range_lvs", s |-> query.s, i |-> query.i,
                  j |-> query.j, s_lvs |-> lvs_of(query.s),
                  range |-> rr_range(query.s, query.i, query.j) ]
    /\ UNCHANGED <<graph, oplog, other, tree, cursor, iter>>

SpecRangeRevLvs == InitRangeRevLvs /\ [][SplitLvs \/ AppendLvs \/ RangeLvs]_vars

\* C27: splitting and merging a RangeRev keep the sequence of LVs it
\* denotes in iteration order: for s split at k into (a, b), the LVs of a
\* are the first k of s and those of b the rest (so the left piece of a
\* reversed span holds the highest LVs); whenever a.can_append(b), the
\* appended span denotes the LVs of a followed by those of b; and
\* range(i, j) covers exactly the LVs at offsets i..j.
RangeRevKeepsLvOrder ==
    /\ query.op = "split_lvs" =>
          /\ query.a_lvs = SubSeq(query.s_lvs, 1, query.at)
          /\ query.b_lvs = SubSeq(query.s_lvs, query.at + 1, Len(query.s_lvs))
          /\ ~query.s.fwd =>
                \A x \in Range(query.a_lvs), y \in Range(query.b_lvs) : x > y
    /\ (query.op = "append_lvs" /\ query.can_append) =>
          query.joined_lvs = query.a_lvs \o query.b_lvs
    /\ query.op = "range_lvs" =>
          /\ query.range.start <= query.range.end
          /\ query.range.start .. (query.range.end - 1)
                = { query.s_lvs[t] : t \in (query.i + 1)..query.j }

\* Two spans of length 1, both marked forward, the second just below the
\* first, were appended into a reversed span of length 2.
RangeRevLvWitness ==
    /\ query.op = "append_lvs"
    /\ query.can_append
    /\ query.a.fwd /\ query.b.fwd
    /\ ~query.joined.fwd
    /\ Len(query.joined_lvs) = 2

---------------------------------------------------------------------------
(* dt-cli export: the transaction list of export_trace_to_json *)

\* The LVs after which a chunk ends: the last LV of every graph entry and
\* every LV some entry names as a parent, so that every parent is the last
\* LV of an earlier chunk (what the idx_for_v lookups rely on).
chunk_lasts(entries) ==
    { entries[i].end - 1 : i \in 1..Len(entries) }
        \cup UNION { Range(entries[i].parents) : i \in 1..Len(entries) }

\* ListOpLog::as_chunked_operation_vec, reduced to the span and parents of
\* each chunk, in LV order.
as_chunked_operation_vec(entries) ==
    LET lasts == SortedSeq(chunk_lasts(entries))
        start_of(i) == IF i = 1 THEN 0 ELSE lasts[i - 1] + 1
    IN  [ i \in 1..Len(lasts) |->
            [ span |-> [start |-> start_of(i), end |-> lasts[i] + 1],
              parents |-> SortedSeq(ParentsOfLV(entries, start_of(i))) ] ]

\* idx_for_v.get(v).unwrap(): the index (from 0) of the chunk ending at v.
idx_for_v(chunks, v) ==
    (CHOOSE i \in 1..Len(chunks) : chunks[i].span.end - 1 = v) - 1

\* The loop over the chunks: push a txn with its parents' indexes and no
\* children, then count it as a child of each parent.
RECURSIVE export_txns_from(_, _, _)
export_txns_from(chunks, i, txns) ==
    IF i > Len(chunks) THEN txns
    ELSE LET entry == chunks[i]
             parents == [ k \in 1..Len(entry.parents) |->
                            idx_for_v(chunks, entry.parents[k]) ]
             pushed == Append(txns, [parents |-> parents, num_children |-> 0])
             counted == [ j \in 1..Len(pushed) |->
                            IF (j - 1) \in Range(parents)
                            THEN [pushed[j] EXCEPT !.num_children = @ + 1]
                            ELSE pushed[j] ]
         IN  export_txns_from(chunks, i + 1, counted)

\* The dummy merge: if let Some((_, rest)) = txns.split_last_mut() { ... }
add_dummy_txn(txns) ==
    LET n == Len(txns)
        rest == 1..(n - 1)
        unmerged == { i \in rest : txns[i].num_children = 0 }
    IN  IF n = 0 \/ unmerged = {} THEN txns
        ELSE Append([ i \in 1..n |->
                        IF i \in unmerged
                        THEN [txns[i] EXCEPT !.num_children = @ + 1]
                        ELSE txns[i] ],
                    [ parents |-> SortedSeq({ i - 1 : i \in unmerged }),
                      num_children |-> 0 ])

\* export_trace_to_json, reduced to the txns of its result.
export_trace_to_json(entries) ==
    add_dummy_txn(export_txns_from(as_chunked_operation_vec(entries), 1, <<>>))

ExportTraceToJson ==
    /\ query = NoQuery
    /\ LET chunks == as_chunked_operation_vec(graph)
           before == export_txns_from(chunks, 1, <<>>)
       IN  query' = [ op |-> "export_trace_to_json", chunks |-> chunks,
                      before |-> before,
                      txns |-> export_trace_to_json(graph) ]
    /\ UNCHANGED <<graph, oplog, other, tree, cursor, iter>>

SpecExport == Init /\ [][GraphPush \/ ExportTraceToJson]_vars

\* The indexes (from 1) of the txns that a set of txns descends from,
\* the set included.
RECURSIVE TxnHistory(_, _, _)
TxnHistory(txns, todo, acc) ==
    IF todo = {} THEN acc
    ELSE LET i == CHOOSE x \in todo : TRUE
             ps == { p + 1 : p \in Range(txns[i].parents) }
         IN  TxnHistory(txns, (todo \cup ps) \ (acc \cup {i}), acc \cup {i})

Childless(txns) == { i \in 1..Len(txns) : txns[i].num_children = 0 }

\* C30: in the txns of export_trace_to_json a final dummy txn is appended
\* exactly when more than one txn would have no children, and in the result
\* every txn except the last has num_children >= 1, every txn is an
\* ancestor of the last one, and each txn's num_children is the number of
\* txns that list it as a parent.
ExportMergesIntoLastTxn ==
    query.op = "export_trace_to_json" =>
        LET txns == query.txns
            n == Len(txns)
        IN  /\ (n = Len(query.before) + 1)
                  <=> (Cardinality(Childless(query.before)) > 1)
            /\ \A i \in 1..(n - 1) : txns[i].num_children >= 1
            /\ n > 0 => TxnHistory(txns, {n}, {}) = 1..n
            /\ \A i \in 1..n :
                  txns[i].num_children
                     = Cardinality({ j \in 1..n :
                                        (i - 1) \in Range(txns[j].parents) })

---------------------------------------------------------------------------
(* dt-cli export: SimpleTextOp, its merge rule and its conversions *)

MaxPos == 2
MaxContentLen == 2
MaxMergedLen == 3

\* Content is a sequence of chars; a char is one or two bytes of UTF-8.
Utf8Chars == {"a", "e_acute"}
utf8_len(c) == IF c = "a" THEN 1 ELSE 2

RECURSIVE str_len(_)
\* str::len(): the length in bytes.
str_len(s) == IF s = <<>> THEN 0 ELSE utf8_len(Head(s)) + str_len(Tail(s))

\* str.chars().count()
chars_count(s) == Len(s)

Strings(n) == UNION { [1..k -> Utf8Chars] : k \in 0..n }

Timestamps == {0, 1}
\* DateTime::default()
DefaultTimestamp == 0

\* A can_append that measures the first insert in bytes.
simple_can_append_bytes(self, rhs) ==
    /\ IF self.del_len > 0
       THEN self.pos = rhs.pos /\ rhs.ins_content = <<>>
       ELSE self.pos + str_len(self.ins_content) = rhs.pos /\ rhs.del_len = 0
    /\ self.timestamp = rhs.timestamp

\* SimpleTextOp::can_append
simple_can_append(self, rhs) ==
    /\ IF self.del_len > 0
       THEN self.pos = rhs.pos /\ rhs.ins_content = <<>>
       ELSE self.pos + chars_count(self.ins_content) = rhs.pos
            /\ rhs.del_len = 0
    /\ self.timestamp = rhs.timestamp

\* SimpleTextOp::append
simple_append(self, rhs) ==
    [self EXCEPT !.del_len = @ + rhs.del_len,
                 !.ins_content = @ \o rhs.ins_content]

\* TextOperation { kind, loc: RangeRev, content: Option<SmartString> }: an
\* insert carries its content or none, a delete may carry what it deleted.
TextOperations ==
    { [kind |-> k, loc |-> [span |-> [start |-> st, end |-> st + n],
                            fwd |-> f], content |-> c] :
        k \in {"Ins", "Del"}, st \in 0..MaxPos, n \in 1..MaxContentLen,
        f \in BOOLEAN, c \in {None} \cup { Some(s) : s \in Strings(MaxContentLen) } }

WellFormed(op) == op.content.some => Len(op.content.v) = rr_len(op.loc)

ConvPanic(what) == [panic |-> what]
IsPanic(r) == "panic" \in DOMAIN r

\* impl From<TextOperation> for SimpleTextOp
simple_from(op) ==
    IF op.kind = "Ins"
    THEN IF ~op.loc.fwd THEN ConvPanic("todo: Not reversing op")
         ELSE IF ~op.content.some THEN ConvPanic("unwrap on None")
         ELSE [pos |-> op.loc.span.start, del_len |-> 0,
               ins_content |-> op.content.v, timestamp |-> DefaultTimestamp]
    ELSE [pos |-> op.loc.span.start, del_len |-> rr_len(op.loc),
          ins_content |-> <<>>, timestamp |-> DefaultTimestamp]

\* impl Into<TextOperation> for &SimpleTextOp
simple_into(self) ==
    IF (self.del_len = 0) = (self.ins_content /= <<>>)
    THEN ConvPanic("assert_ne failed")
    ELSE IF self.del_len > 0
    THEN [kind |-> "Del",
          loc |-> [span |-> [start |-> self.pos, end |-> self.pos + self.del_len],
                   fwd |-> TRUE],
          content |-> None]
    ELSE [kind |-> "Ins",
          loc |-> [span |-> [start |-> self.pos,
                             end |-> self.pos + chars_count(self.ins_content)],
                   fwd |-> TRUE],
          content |-> Some(self.ins_content)]

IsInsert(s) == s.del_len = 0 /\ s.ins_content /= <<>>
IsDelete(s) == s.del_len > 0 /\ s.ins_content = <<>>

InitTextOps ==
    /\ graph = <<>>
    /\ oplog = EmptyOpLog
    /\ other = EmptyOpLog
    /\ tree = NoTree
    /\ cursor = NoCursor
    /\ iter = NoIter
    /\ \E op \in TextOperations :
          /\ WellFormed(op)
          /\ query = [op |-> "text_op", text_op |-> op]

\* let mut text_op: SimpleTextOp = op.into(); text_op.timestamp = ...; the
\* first item of merge_spans() is held back as the current run.
FromTextOperation ==
    /\ query.op = "text_op"
    /\ LET s == simple_from(query.text_op)
       IN  IF IsPanic(s)
           THEN query' = [op |-> "panic", text_op |-> query.text_op]
           ELSE \E ts \in Timestamps :
                   query' = [op |-> "run", cur |-> [s EXCEPT !.timestamp = ts]]
    /\ UNCHANGED <<graph, oplog, other, tree, cursor, iter>>

\* One step of merge_spans(): the next converted op is appended to the
\* current run if can_append allows it, else the run is emitted and the op
\* starts the next run.
MergeSpans ==
    /\ query.op \in {"run", "merged"}
    /\ \E op \in TextOperations, ts \in Timestamps :
          /\ WellFormed(op)
          /\ ~IsPanic(simple_from(op))
          /\ LET a == query.cur
                 b == [simple_from(op) EXCEPT !.timestamp = ts]
                 can == simple_can_append(a, b)
             IN  /\ a.del_len + b.del_len <= MaxMergedLen
                 /\ Len(a.ins_content) + Len(b.ins_content) <= MaxMergedLen
                 /\ query' = [ op |-> "merged", a |-> a, b |-> b,
                               can_append |-> can,
                               cur |-> IF can THEN simple_append(a, b) ELSE b ]
    /\ UNCHANGED <<graph, oplog, other, tree, cursor, iter>>

SpecMergeSpans == InitTextOps /\ [][FromTextOperation \/ MergeSpans]_vars

\* C28: can_append never holds between an insert and a delete: it holds
\* only for a delete followed by a delete at the same position, or an
\* insert followed by an insert that starts where the first one's content
\* ends, counted in chars, and only for equal timestamps; so after any
\* sequence of merges no SimpleTextOp has both del_len > 0 and content.
CanAppendKeepsOpsPure ==
    /\ query.op = "merged" =>
          /\ query.can_append =>
                /\ \/ IsDelete(query.a) /\ IsDelete(query.b)
                         /\ query.a.pos = query.b.pos
                   \/ IsInsert(query.a) /\ IsInsert(query.b)
                         /\ query.b.pos
                               = query.a.pos + Len(query.a.ins_content)
                /\ query.a.timestamp = query.b.timestamp
          /\ (IsInsert(query.a) /\ IsDelete(query.b)) => ~query.can_append
          /\ (IsDelete(query.a) /\ IsInsert(query.b)) => ~query.can_append
    /\ query.op \in {"run", "merged"} =>
          ~(query.cur.del_len > 0 /\ query.cur.ins_content /= <<>>)

\* A run that is itself the result of a merge was extended by an insert
\* after a two-byte char.
CanAppendWitness ==
    /\ query.op = "merged"
    /\ query.can_append
    /\ Len(query.a.ins_content) = 2
    /\ query.a.ins_content[2] = "e_acute"
    /\ Len(query.cur.ins_content) = 3

---------------------------------------------------------------------------
(* dt-cli export: TextOperation -> SimpleTextOp -> TextOperation *)

\* SimpleTextOps of any shape: pure, mixed and empty.
SimpleTextOps ==
    { [pos |-> p, del_len |-> d, ins_content |-> s, timestamp |-> ts] :
        p \in 0..MaxPos, d \in 0..MaxContentLen, s \in Strings(MaxContentLen),
        ts \in Timestamps }

InitConvert ==
    /\ graph = <<>>
    /\ oplog = EmptyOpLog
    /\ other = EmptyOpLog
    /\ tree = NoTree
    /\ cursor = NoCursor
    /\ iter = NoIter
    /\ \/ \E op \in TextOperations :
             /\ WellFormed(op)
             /\ query = [op |-> "text_op", text_op |-> op]
       \/ \E s \in SimpleTextOps : query = [op |-> "simple_op", simple |-> s]

\* let s: SimpleTextOp = op.into(); let back: TextOperation = (&s).into();
RoundTrip ==
    /\ query.op = "text_op"
    /\ LET s == simple_from(query.text_op)
       IN  query' = [ op |-> "round_trip", text_op |-> query.text_op,
                      simple |-> s,
                      back |-> IF IsPanic(s) THEN s ELSE simple_into(s) ]
    /\ UNCHANGED <<graph, oplog, other, tree, cursor, iter>>

\* let op: TextOperation = (&s).into();
IntoTextOperation ==
    /\ query.op = "simple_op"
    /\ query' = [ op |-> "into", simple |-> query.simple,
                  result |-> simple_into(query.simple) ]
    /\ UNCHANGED <<graph, oplog, other, tree, cursor, iter>>

SpecConvert == InitConvert /\ [][RoundTrip \/ IntoTextOperation]_vars

\* C29: a forward TextOperation (an insert with content, or a delete)
\* converted to a SimpleTextOp and back does not trip the assertion and
\* comes back with the same kind, location and content; the
\* back-conversion accepts exactly the pure inserts and the pure deletes.
ConversionRoundTrip ==
    /\ (/\ query.op = "round_trip"
        /\ query.text_op.loc.fwd
        /\ query.text_op.kind = "Ins" => query.text_op.content.some) =>
          /\ ~IsPanic(query.back)
          /\ query.back = query.text_op
    /\ query.op = "into" =>
          (~IsPanic(query.result)
              <=> (IsInsert(query.simple) \/ IsDelete(query.simple)))

====
